---- MODULE Spec2Model ----
(***************************************************************************)
(* AudioMid native core: the byte-budgeted AudioBuffer                     *)
(* (src/native/audio-capture/audio_buffer.{h,cpp}), its use by the capture *)
(* pipeline (src/native/audio_capture_addon.cpp) and the decoder           *)
(* AudioFormatConverter::ConvertToMonoFloat32.                             *)
(*                                                                         *)
(* Spec      every public AudioBuffer operation as one atomic action       *)
(* SpecConc  the same operations statement by statement, run by one        *)
(*           producer and several consumer threads around std::mutex       *)
(* SpecPipe  OnAudioData -> ProcessAndBufferAudio -> PushFloat32 with a    *)
(*           consumer that drains through GetBufferedFloat32Audio          *)
(***************************************************************************)
EXTENDS Integers, Sequences, FiniteSets, TLC

(* ------------------------------ bounds -------------------------------- *)

\* chunks the two deques hold together in a run that keeps no history
MaxQueued == 3

\* pushes of non-empty data in a run that keeps the histories
MaxPushes == 3

\* chunks the two deques hold together in a run of concurrent threads
MaxConcQueued == 2

\* values the steady clock takes
MaxClock == 1

\* size_t is 64 bits wide; the counter is modelled modulo this scaled word
SizeTModulus == 1073741824

\* SetAudioCallback calls in a run
MaxCallbacks == 2

\* calls waiting in the thread-safe function's queue
MaxPending == 1

(* ------------------------- program constants -------------------------- *)

\* sizeof(AudioChunk) on LP64: vector (24) + uint64 (8) + uint32 (4) + uint16 (2) + padding (2)
HeaderOverhead == 40

\* sizeof(int16_t), sizeof(float)
SizeofInt16 == 2

SizeofFloat == 4

(* ------------------------------ state --------------------------------- *)

VARIABLES
    chunks_,            \* std::deque<AudioChunk>
    float32Chunks_,     \* std::deque<Float32AudioChunk>
    maxSizeBytes_,      \* size_t, the byte budget
    currentSizeBytes_,  \* size_t, the running byte counter
    clock,              \* std::chrono::steady_clock, in milliseconds
    last,               \* the operation that ran last and its arguments
    result,             \* what that operation returned
    outChunk,           \* the caller's AudioChunk& handed to Pop
    evicted,            \* how many chunks the last call's TrimToSize removed
    pushed16,           \* history: every chunk appended to chunks_
    popped16,           \* history: every chunk handed out of chunks_
    lost16,             \* history: a chunk left chunks_ by eviction or Clear
    pushedF32,          \* history: every chunk appended to float32Chunks_
    poppedF32,          \* history: every chunk handed out of float32Chunks_
    lostF32,            \* history: a chunk left float32Chunks_ by Clear
    recording,          \* TRUE: the run keeps the histories; FALSE: the last call and its result
    mutex_,             \* std::mutex: the thread that holds it, or NoThread
    pc,                 \* per thread: where it stands in the operation it runs
    call,               \* per thread: the operation it runs and its arguments
    locals,             \* per thread: count, result, chunkSize, timestamp
    snap,               \* the buffer as the holder of the mutex found it
    jsCallback_,        \* Napi::ThreadSafeFunction: the function it refers to, or NoFunction
    hasJSCallback_,     \* std::atomic<bool>
    released,           \* the thread-safe functions Release() was called on
    capturing,          \* the capture thread exists and delivers samples
    hostPc,             \* the host thread inside the addon
    capturePc,          \* the capture thread inside OnAudioData
    queued,             \* calls BlockingCall queued for the host thread
    blockingCall        \* what the last BlockingCall did

bufVars == <<chunks_, float32Chunks_, maxSizeBytes_, currentSizeBytes_>>

histVars == <<pushed16, popped16, lost16, pushedF32, poppedF32, lostF32, recording>>

vars == <<chunks_, float32Chunks_, maxSizeBytes_, currentSizeBytes_, clock,
          last, result, outChunk, evicted,
          pushed16, popped16, lost16, pushedF32, poppedF32, lostF32, recording,
          mutex_, pc, call, locals, snap,
          jsCallback_, hasJSCallback_, released, capturing, hostPc, capturePc, queued,
          blockingCall>>

addonVars == <<jsCallback_, hasJSCallback_, released, capturing, hostPc, capturePc, queued,
               blockingCall>>

concVars == <<mutex_, pc, call, locals, snap>>

obsVars == <<last, result, outChunk, evicted>>

(* ------------------------------ inputs -------------------------------- *)

\* a float as the dyadic rational m * 2^e it denotes
F(m, e) == [m |-> m, e |-> e]

\* (audioData, sampleRate, channels) arguments of Push
PushArgs == {<< <<>>, 48000, 1 >>, << <<100>>, 48000, 1 >>, << <<-7, 200>>, 16000, 2 >>}

\* (audioData, sampleRate, channels) arguments of PushFloat32
PushFloat32Args ==
    {<< <<>>, 48000, 1 >>, << <<F(1, -1)>>, 48000, 1 >>,
     << <<F(-1, 0), F(3, -2)>>, 16000, 1 >>}

\* budgets handed to the constructor and to SetMaxSize
Budgets == {0, 50, 200}

\* maxChunks arguments of PopMultiple and PopMultipleFloat32
MaxChunksArgs == {0, 2, 1000}

\* a default-constructed AudioChunk in the caller's frame
CallerChunk == [data |-> <<>>, timestamp |-> 0, sampleRate |-> 0, channels |-> 0]

NoResult == "void"

\* one producer (the capture callback) and the consumers that poll the buffer
Producers == {"producer"}

Consumers == {"consumer1", "consumer2"}

Threads == Producers \cup Consumers

NoThread == "free"

NoCall == [op |-> "none", arg |-> <<>>]

\* what an operation returns to its thread: nothing, a bool, chunks or a size
RVoid == [kind |-> "void", ok |-> FALSE, chunks |-> <<>>, n |-> 0]

RBool(b) == [kind |-> "bool", ok |-> b, chunks |-> <<>>, n |-> 0]

RChunks(q) == [kind |-> "chunks", ok |-> FALSE, chunks |-> q, n |-> 0]

RSize(n) == [kind |-> "size", ok |-> FALSE, chunks |-> <<>>, n |-> n]

NoLocals == [count |-> 0, result |-> RVoid, chunkSize |-> 0, timestamp |-> 0,
             out |-> CallerChunk]

\* an empty Napi::ThreadSafeFunction
NoFunction == 0

NoSnap == [chunks |-> <<>>, f32 |-> <<>>, max |-> 0, cur |-> 0]

(* ------------------------- size_t arithmetic -------------------------- *)

SizeAdd(a, b) == (a + b) % SizeTModulus

SizeSub(a, b) == (a - b + SizeTModulus) % SizeTModulus

Min(a, b) == IF a < b THEN a ELSE b

(* ------------------------ private helpers ----------------------------- *)

\* a mutant of GetChunkSize: the size of the vector is left out
GetChunkSizeHeaderOnly(chunk) == HeaderOverhead

GetChunkSize(chunk) == HeaderOverhead + (Len(chunk.data) * SizeofInt16)

\* chunk.data.size() * sizeof(float)
Float32ChunkSize(chunk) == Len(chunk.data) * SizeofFloat

GetCurrentTimestamp == clock

\* a mutant of TrimLoop: the newest chunk is never evicted
RECURSIVE TrimLoopKeepsNewest(_, _, _)
TrimLoopKeepsNewest(q, cur, max) ==
    IF cur > max /\ Len(q) > 1
    THEN TrimLoopKeepsNewest(Tail(q), SizeSub(cur, GetChunkSize(Head(q))), max)
    ELSE [chunks |-> q, size |-> cur]

RECURSIVE TrimLoop(_, _, _)
TrimLoop(q, cur, max) ==
    IF cur > max /\ q # <<>>
    THEN TrimLoop(Tail(q), SizeSub(cur, GetChunkSize(Head(q))), max)
    ELSE [chunks |-> q, size |-> cur]

\* a mutant of TrimToSize: one chunk at most is evicted (if for while)
TrimToSizeOnce(q, cur, max) ==
    IF cur > max /\ q # <<>>
    THEN [chunks |-> Tail(q), size |-> SizeSub(cur, GetChunkSize(Head(q)))]
    ELSE [chunks |-> q, size |-> cur]

\* the deque and the counter TrimToSize leaves, from those it finds
TrimToSize(q, cur, max) == TrimLoop(q, cur, max)

(* --------------------- the operations, atomically --------------------- *)

\* the state the constructor leaves, with every thread outside the buffer
InitState(maxSizeBytes, rec) ==
    /\ chunks_ = <<>>
    /\ float32Chunks_ = <<>>
    /\ maxSizeBytes_ = maxSizeBytes
    /\ currentSizeBytes_ = 0
    /\ clock = 0
    /\ last = [op |-> "AudioBuffer", arg |-> maxSizeBytes]
    /\ result = NoResult
    /\ outChunk = CallerChunk
    /\ evicted = 0
    /\ pushed16 = <<>>
    /\ popped16 = <<>>
    /\ lost16 = FALSE
    /\ pushedF32 = <<>>
    /\ poppedF32 = <<>>
    /\ lostF32 = FALSE
    /\ recording = rec
    /\ mutex_ = NoThread
    /\ pc = [t \in Threads |-> "idle"]
    /\ call = [t \in Threads |-> NoCall]
    /\ locals = [t \in Threads |-> NoLocals]
    /\ snap = NoSnap
    /\ jsCallback_ = NoFunction
    /\ hasJSCallback_ = FALSE
    /\ released = {}
    /\ capturing = FALSE
    /\ hostPc = "idle"
    /\ capturePc = "idle"
    /\ queued = 0
    /\ blockingCall = "none"

Init == \E b \in Budgets : InitState(b, FALSE)

\* the model's cap on pushes: the code has none
PushBudgetLeft ==
    IF recording
    THEN Len(pushed16) + Len(pushedF32) < MaxPushes
    ELSE Len(chunks_) + Len(float32Chunks_) < MaxQueued

\* a history is extended only in a run that keeps it
Rec(old, new) == IF recording THEN new ELSE old

\* the last call and what it returned are kept in the other runs
Obs(old, new) == IF recording THEN old ELSE new

\* a mutant of Push: a chunk larger than the budget is refused before it is queued
PushRefusesOversize(audioData, sampleRate, channels) ==
    /\ audioData # <<>> => PushBudgetLeft
    /\ last' = Obs(last, [op |-> "Push", arg |-> Len(audioData)])
    /\ result' = Obs(result, NoResult)
    /\ IF audioData = <<>> \/ HeaderOverhead + SizeofInt16 * Len(audioData) > maxSizeBytes_
       THEN evicted' = Obs(evicted, 0) /\ UNCHANGED <<bufVars, histVars>>
       ELSE LET chunk == [data |-> audioData, timestamp |-> GetCurrentTimestamp,
                          sampleRate |-> sampleRate, channels |-> channels]
                t == TrimToSize(Append(chunks_, chunk),
                                SizeAdd(currentSizeBytes_, GetChunkSize(chunk)),
                                maxSizeBytes_)
            IN /\ chunks_' = t.chunks
               /\ evicted' = Obs(evicted, Len(chunks_) + 1 - Len(t.chunks))
               /\ currentSizeBytes_' = t.size
               /\ pushed16' = Rec(pushed16, Append(pushed16, chunk))
               /\ lost16' = Rec(lost16, (lost16 \/ Len(t.chunks) < Len(chunks_) + 1))
               /\ UNCHANGED <<recording, float32Chunks_, maxSizeBytes_, popped16,
                              pushedF32, poppedF32, lostF32>>
    /\ UNCHANGED <<clock, outChunk, concVars, addonVars>>

Push(audioData, sampleRate, channels) ==
    /\ audioData # <<>> => PushBudgetLeft
    /\ last' = Obs(last, [op |-> "Push", arg |-> Len(audioData)])
    /\ result' = Obs(result, NoResult)
    /\ IF audioData = <<>>
       THEN evicted' = Obs(evicted, 0) /\ UNCHANGED <<bufVars, histVars>>
       ELSE LET chunk == [data |-> audioData, timestamp |-> GetCurrentTimestamp,
                          sampleRate |-> sampleRate, channels |-> channels]
                chunkSize == GetChunkSize(chunk)
                t == TrimToSize(Append(chunks_, chunk),
                                SizeAdd(currentSizeBytes_, chunkSize), maxSizeBytes_)
            IN /\ chunks_' = t.chunks
               /\ evicted' = Obs(evicted, Len(chunks_) + 1 - Len(t.chunks))
               /\ currentSizeBytes_' = t.size
               /\ pushed16' = Rec(pushed16, Append(pushed16, chunk))
               /\ lost16' = Rec(lost16, (lost16 \/ Len(t.chunks) < Len(chunks_) + 1))
               /\ UNCHANGED <<recording, float32Chunks_, maxSizeBytes_, popped16,
                              pushedF32, poppedF32, lostF32>>
    /\ UNCHANGED <<clock, outChunk, concVars, addonVars>>

PushFloat32(audioData, sampleRate, channels) ==
    /\ audioData # <<>> => PushBudgetLeft
    /\ last' = Obs(last, [op |-> "PushFloat32", arg |-> Len(audioData)])
    /\ result' = Obs(result, NoResult)
    /\ IF audioData = <<>>
       THEN evicted' = Obs(evicted, 0) /\ UNCHANGED <<bufVars, histVars>>
       ELSE LET chunk == [data |-> audioData, timestamp |-> GetCurrentTimestamp,
                          sampleRate |-> sampleRate, channels |-> channels]
                chunkSize == Len(audioData) * SizeofFloat
                t == TrimToSize(chunks_, SizeAdd(currentSizeBytes_, chunkSize),
                                maxSizeBytes_)
            IN /\ float32Chunks_' = Append(float32Chunks_, chunk)
               /\ chunks_' = t.chunks
               /\ evicted' = Obs(evicted, Len(chunks_) - Len(t.chunks))
               /\ currentSizeBytes_' = t.size
               /\ pushedF32' = Rec(pushedF32, Append(pushedF32, chunk))
               /\ lost16' = Rec(lost16, (lost16 \/ Len(t.chunks) < Len(chunks_)))
               /\ UNCHANGED <<recording, maxSizeBytes_, pushed16, popped16, poppedF32, lostF32>>
    /\ UNCHANGED <<clock, outChunk, concVars, addonVars>>

\* a mutant of PopFront: the newest chunk is taken
PopFrontNewest(q, cur) ==
    [chunk |-> q[Len(q)], chunks |-> SubSeq(q, 1, Len(q) - 1),
     size |-> SizeSub(cur, GetChunkSize(q[Len(q)]))]

\* chunk = std::move(chunks_.front()); currentSizeBytes_ -= GetChunkSize(chunk);
\* chunks_.pop_front();
PopFront(q, cur) ==
    [chunk |-> Head(q), chunks |-> Tail(q),
     size |-> SizeSub(cur, GetChunkSize(Head(q)))]

\* a mutant of Pop: the empty branch resets the caller's chunk before returning false
PopEmptyClobbers ==
    /\ last' = Obs(last, [op |-> "Pop", arg |-> 0])
    /\ evicted' = Obs(evicted, 0)
    /\ IF chunks_ = <<>>
       THEN /\ result' = Obs(result, FALSE)
            /\ outChunk' = Obs(outChunk, CallerChunk)
            /\ UNCHANGED <<bufVars, histVars>>
       ELSE LET p == PopFront(chunks_, currentSizeBytes_)
            IN /\ outChunk' = Obs(outChunk, p.chunk)
               /\ currentSizeBytes_' = p.size
               /\ chunks_' = p.chunks
               /\ result' = Obs(result, TRUE)
               /\ popped16' = Rec(popped16, Append(popped16, p.chunk))
               /\ UNCHANGED <<recording, float32Chunks_, maxSizeBytes_, pushed16, lost16,
                              pushedF32, poppedF32, lostF32>>
    /\ UNCHANGED <<clock, concVars, addonVars>>

Pop ==
    /\ last' = Obs(last, [op |-> "Pop", arg |-> 0])
    /\ IF chunks_ = <<>>
       THEN /\ result' = Obs(result, FALSE)
            /\ UNCHANGED <<bufVars, histVars, outChunk>>
       ELSE LET p == PopFront(chunks_, currentSizeBytes_)
            IN /\ outChunk' = Obs(outChunk, p.chunk)
               /\ currentSizeBytes_' = p.size
               /\ chunks_' = p.chunks
               /\ result' = Obs(result, TRUE)
               /\ popped16' = Rec(popped16, Append(popped16, p.chunk))
               /\ UNCHANGED <<recording, float32Chunks_, maxSizeBytes_, pushed16, lost16,
                              pushedF32, poppedF32, lostF32>>
    /\ evicted' = Obs(evicted, 0)
    /\ UNCHANGED <<clock, concVars, addonVars>>

\* a mutant of PopMultipleLoop: the bound is tested with <= (one chunk too many)
RECURSIVE PopMultipleLoopOffByOne(_, _, _, _, _)
PopMultipleLoopOffByOne(q, cur, res, count, maxChunks) ==
    IF q # <<>> /\ count <= maxChunks
    THEN LET p == PopFront(q, cur)
         IN PopMultipleLoopOffByOne(p.chunks, p.size, Append(res, p.chunk),
                                    count + 1, maxChunks)
    ELSE [chunks |-> q, size |-> cur, result |-> res]

\* while (!chunks_.empty() && count < maxChunks) { ... }
RECURSIVE PopMultipleLoop(_, _, _, _, _)
PopMultipleLoop(q, cur, res, count, maxChunks) ==
    IF q # <<>> /\ count < maxChunks
    THEN LET p == PopFront(q, cur)
         IN PopMultipleLoop(p.chunks, p.size, Append(res, p.chunk),
                            count + 1, maxChunks)
    ELSE [chunks |-> q, size |-> cur, result |-> res]

\* a mutant of PopMultiple: the float32 deque is emptied along the way
PopMultipleDrainsBoth(maxChunks) ==
    LET r == PopMultipleLoop(chunks_, currentSizeBytes_, <<>>, 0, maxChunks)
    IN /\ last' = Obs(last, [op |-> "PopMultiple", arg |-> maxChunks])
       /\ chunks_' = r.chunks
       /\ float32Chunks_' = <<>>
       /\ currentSizeBytes_' = r.size
       /\ result' = Obs(result, r.result)
       /\ evicted' = Obs(evicted, 0)
       /\ popped16' = Rec(popped16, popped16 \o r.result)
       /\ UNCHANGED <<recording, maxSizeBytes_, clock, outChunk, concVars, addonVars, pushed16,
                      lost16, pushedF32, poppedF32, lostF32>>

PopMultiple(maxChunks) ==
    LET r == PopMultipleLoop(chunks_, currentSizeBytes_, <<>>, 0, maxChunks)
    IN /\ last' = Obs(last, [op |-> "PopMultiple", arg |-> maxChunks])
       /\ chunks_' = r.chunks
       /\ currentSizeBytes_' = r.size
       /\ result' = Obs(result, r.result)
       /\ evicted' = Obs(evicted, 0)
       /\ popped16' = Rec(popped16, popped16 \o r.result)
       /\ UNCHANGED <<recording, float32Chunks_, maxSizeBytes_, clock, outChunk, concVars, addonVars, pushed16,
                      lost16, pushedF32, poppedF32, lostF32>>

\* a mutant of PopMultipleFloat32Loop: the result is built newest first
RECURSIVE PopMultipleFloat32LoopReversed(_, _, _, _, _)
PopMultipleFloat32LoopReversed(q, cur, res, count, maxChunks) ==
    IF q # <<>> /\ count < maxChunks
    THEN PopMultipleFloat32LoopReversed(Tail(q), SizeSub(cur, Float32ChunkSize(Head(q))),
                                        <<Head(q)>> \o res, count + 1, maxChunks)
    ELSE [chunks |-> q, size |-> cur, result |-> res]

\* while (!float32Chunks_.empty() && count < maxChunks) { ... }
RECURSIVE PopMultipleFloat32Loop(_, _, _, _, _)
PopMultipleFloat32Loop(q, cur, res, count, maxChunks) ==
    IF q # <<>> /\ count < maxChunks
    THEN PopMultipleFloat32Loop(Tail(q), SizeSub(cur, Float32ChunkSize(Head(q))),
                                Append(res, Head(q)), count + 1, maxChunks)
    ELSE [chunks |-> q, size |-> cur, result |-> res]

PopMultipleFloat32(maxChunks) ==
    LET r == PopMultipleFloat32Loop(float32Chunks_, currentSizeBytes_, <<>>, 0, maxChunks)
    IN /\ last' = Obs(last, [op |-> "PopMultipleFloat32", arg |-> maxChunks])
       /\ float32Chunks_' = r.chunks
       /\ currentSizeBytes_' = r.size
       /\ result' = Obs(result, r.result)
       /\ evicted' = Obs(evicted, 0)
       /\ poppedF32' = Rec(poppedF32, poppedF32 \o r.result)
       /\ UNCHANGED <<recording, chunks_, maxSizeBytes_, clock, outChunk, concVars, addonVars, pushed16, popped16,
                      lost16, pushedF32, lostF32>>

\* a mutant of Clear: the float32 deque is forgotten
ClearKeepsFloat32 ==
    /\ last' = Obs(last, [op |-> "Clear", arg |-> 0])
    /\ result' = Obs(result, NoResult)
    /\ evicted' = Obs(evicted, 0)
    /\ chunks_' = <<>>
    /\ currentSizeBytes_' = 0
    /\ lost16' = Rec(lost16, (lost16 \/ chunks_ # <<>>))
    /\ UNCHANGED <<recording, float32Chunks_, lostF32, maxSizeBytes_, clock, outChunk,
                   concVars, addonVars, pushed16, popped16, pushedF32, poppedF32>>

Clear ==
    /\ last' = Obs(last, [op |-> "Clear", arg |-> 0])
    /\ result' = Obs(result, NoResult)
    /\ evicted' = Obs(evicted, 0)
    /\ chunks_' = <<>>
    /\ float32Chunks_' = <<>>
    /\ currentSizeBytes_' = 0
    /\ lost16' = Rec(lost16, (lost16 \/ chunks_ # <<>>))
    /\ lostF32' = Rec(lostF32, (lostF32 \/ float32Chunks_ # <<>>))
    /\ UNCHANGED <<recording, maxSizeBytes_, clock, outChunk, concVars, addonVars, pushed16, popped16,
                   pushedF32, poppedF32>>

GetSize ==
    /\ last' = Obs(last, [op |-> "GetSize", arg |-> 0])
    /\ result' = Obs(result, currentSizeBytes_)
    /\ evicted' = Obs(evicted, 0)
    /\ UNCHANGED <<bufVars, histVars, clock, outChunk, concVars, addonVars>>

\* a mutant of SetMaxSize: the budget is stored and eviction waits for the next push
SetMaxSizeNoTrim(maxSizeBytes) ==
    /\ last' = Obs(last, [op |-> "SetMaxSize", arg |-> maxSizeBytes])
    /\ result' = Obs(result, NoResult)
    /\ evicted' = Obs(evicted, 0)
    /\ maxSizeBytes_' = maxSizeBytes
    /\ UNCHANGED <<chunks_, currentSizeBytes_, float32Chunks_, clock, outChunk, histVars,
                   concVars, addonVars>>

SetMaxSize(maxSizeBytes) ==
    LET t == TrimToSize(chunks_, currentSizeBytes_, maxSizeBytes)
    IN /\ last' = Obs(last, [op |-> "SetMaxSize", arg |-> maxSizeBytes])
       /\ result' = Obs(result, NoResult)
       /\ maxSizeBytes_' = maxSizeBytes
       /\ chunks_' = t.chunks
       /\ evicted' = Obs(evicted, Len(chunks_) - Len(t.chunks))
       /\ currentSizeBytes_' = t.size
       /\ lost16' = Rec(lost16, (lost16 \/ Len(t.chunks) < Len(chunks_)))
       /\ UNCHANGED <<recording, float32Chunks_, clock, outChunk, concVars, addonVars, pushed16, popped16,
                      pushedF32, poppedF32, lostF32>>

\* the steady clock advances between operations
Tick ==
    /\ clock < MaxClock
    /\ clock' = clock + 1
    /\ last' = Obs(last, [op |-> "Tick", arg |-> 0])
    /\ result' = Obs(result, NoResult)
    /\ evicted' = Obs(evicted, 0)
    /\ UNCHANGED <<bufVars, histVars, outChunk, concVars, addonVars>>

Next ==
    \/ \E a \in PushArgs : Push(a[1], a[2], a[3])
    \/ \E a \in PushFloat32Args : PushFloat32(a[1], a[2], a[3])
    \/ Pop
    \/ \E m \in MaxChunksArgs : PopMultiple(m)
    \/ \E m \in MaxChunksArgs : PopMultipleFloat32(m)
    \/ Clear
    \/ GetSize
    \/ \E b \in Budgets : SetMaxSize(b)
    \/ Tick

Spec == Init /\ [][Next]_vars

\* the same buffer, in a run that keeps the push and pop histories
InitFifo == \E b \in Budgets : InitState(b, TRUE)

SpecFifo == InitFifo /\ [][Next]_vars

(* ------------- the operations, statement by statement ----------------- *)

ProducerCalls ==
    {[op |-> "Push", arg |-> a] : a \in PushArgs}
    \cup {[op |-> "PushFloat32", arg |-> a] : a \in PushFloat32Args}

ConsumerCalls ==
    {[op |-> "Pop", arg |-> <<>>], [op |-> "Clear", arg |-> <<>>],
     [op |-> "GetSize", arg |-> <<>>]}
    \cup {[op |-> "PopMultiple", arg |-> <<m>>] : m \in MaxChunksArgs}
    \cup {[op |-> "PopMultipleFloat32", arg |-> <<m>>] : m \in MaxChunksArgs}
    \cup {[op |-> "SetMaxSize", arg |-> <<b>>] : b \in Budgets}

IsPush(c) == c.op \in {"Push", "PushFloat32"}

\* the model's cap on pushes by the producer thread: the code has none
ConcBudgetLeft == Len(chunks_) + Len(float32Chunks_) < MaxConcQueued

\* if (audioData.empty()) return;
EmptyPush(c) == IsPush(c) /\ c.arg[1] = <<>>

BufState ==
    [chunks |-> chunks_, f32 |-> float32Chunks_, max |-> maxSizeBytes_,
     cur |-> currentSizeBytes_]

\* a thread calls a public operation; what it called shows once it runs
Invoke(t) ==
    /\ pc[t] = "idle"
    /\ pc' = [pc EXCEPT ![t] = "entry"]
    /\ UNCHANGED <<bufVars, histVars, addonVars, obsVars, clock, mutex_, call, locals, snap>>

\* Push and PushFloat32 return before the lock_guard when the data is empty
EarlyReturn(t, c) ==
    /\ pc[t] = "entry"
    /\ EmptyPush(c)
    /\ pc' = [pc EXCEPT ![t] = "idle"]
    /\ UNCHANGED <<bufVars, histVars, addonVars, obsVars, clock, mutex_, call, locals, snap>>

\* a mutant of Lock: the mutex is taken without waiting for its holder
LockNoWait(t, c) ==
    /\ pc[t] = "entry"
    /\ ~EmptyPush(c)
    /\ IsPush(c) => ConcBudgetLeft
    /\ mutex_' = t
    /\ snap' = BufState
    /\ call' = [call EXCEPT ![t] = c]
    /\ pc' = [pc EXCEPT ![t] = "locked"]
    /\ UNCHANGED <<bufVars, histVars, addonVars, obsVars, clock, locals>>

\* std::lock_guard<std::mutex> lock(mutex_);
Lock(t, c) ==
    /\ pc[t] = "entry"
    /\ ~EmptyPush(c)
    /\ IsPush(c) => ConcBudgetLeft
    /\ mutex_ = NoThread
    /\ mutex_' = t
    /\ snap' = BufState
    /\ call' = [call EXCEPT ![t] = c]
    /\ pc' = [pc EXCEPT ![t] = "locked"]
    /\ UNCHANGED <<bufVars, histVars, addonVars, obsVars, clock, locals>>

\* the calls a thread makes: the producer pushes, the consumers do the rest
CallsOf(t) == IF t \in Producers THEN ProducerCalls ELSE ConsumerCalls

\* a mutant of PushBack: the timestamp was read before the mutex was taken
PushBackEarlyTimestamp(t) ==
    /\ pc[t] = "locked"
    /\ call[t].op = "Push"
    /\ \E early \in 0..GetCurrentTimestamp :
          LET chunk == [data |-> call[t].arg[1], timestamp |-> early,
                        sampleRate |-> call[t].arg[2], channels |-> call[t].arg[3]]
          IN /\ chunks_' = Append(chunks_, chunk)
             /\ locals' = [locals EXCEPT ![t].chunkSize = GetChunkSize(chunk),
                                         ![t].timestamp = chunk.timestamp]
    /\ pc' = [pc EXCEPT ![t] = "add"]
    /\ UNCHANGED <<float32Chunks_, maxSizeBytes_, currentSizeBytes_, histVars, addonVars, obsVars,
                   clock, mutex_, call, snap>>

\* Push: the chunk is built and chunks_.push_back(std::move(chunk)) runs
PushBack(t) ==
    /\ pc[t] = "locked"
    /\ call[t].op = "Push"
    /\ LET chunk == [data |-> call[t].arg[1], timestamp |-> GetCurrentTimestamp,
                     sampleRate |-> call[t].arg[2], channels |-> call[t].arg[3]]
       IN /\ chunks_' = Append(chunks_, chunk)
          /\ locals' = [locals EXCEPT ![t].chunkSize = GetChunkSize(chunk),
                                      ![t].timestamp = chunk.timestamp]
    /\ pc' = [pc EXCEPT ![t] = "add"]
    /\ UNCHANGED <<float32Chunks_, maxSizeBytes_, currentSizeBytes_, histVars, addonVars, obsVars,
                   clock, mutex_, call, snap>>

\* PushFloat32: the chunk is built and float32Chunks_.push_back(std::move(chunk)) runs
PushBackFloat32(t) ==
    /\ pc[t] = "locked"
    /\ call[t].op = "PushFloat32"
    /\ LET chunk == [data |-> call[t].arg[1], timestamp |-> GetCurrentTimestamp,
                     sampleRate |-> call[t].arg[2], channels |-> call[t].arg[3]]
       IN /\ float32Chunks_' = Append(float32Chunks_, chunk)
          /\ locals' = [locals EXCEPT ![t].chunkSize = Len(call[t].arg[1]) * SizeofFloat,
                                      ![t].timestamp = chunk.timestamp]
    /\ pc' = [pc EXCEPT ![t] = "add"]
    /\ UNCHANGED <<chunks_, maxSizeBytes_, currentSizeBytes_, histVars, addonVars, obsVars,
                   clock, mutex_, call, snap>>

\* currentSizeBytes_ += chunkSize;
AddSize(t) ==
    /\ pc[t] = "add"
    /\ currentSizeBytes_' = SizeAdd(currentSizeBytes_, locals[t].chunkSize)
    /\ pc' = [pc EXCEPT ![t] = "trim"]
    /\ UNCHANGED <<chunks_, float32Chunks_, maxSizeBytes_, histVars, addonVars, obsVars, clock,
                   mutex_, call, locals, snap>>

\* a mutant of TrimStep: TrimToSize takes the mutex its caller already holds
TrimStepRelocks(t) ==
    /\ pc[t] = "trim"
    /\ mutex_ = NoThread
    /\ mutex_' = t
    /\ pc' = [pc EXCEPT ![t] = "unlock"]
    /\ UNCHANGED <<bufVars, histVars, addonVars, obsVars, clock, call, locals, snap>>

\* one test of TrimToSize's loop condition, and one eviction when it holds
TrimStep(t) ==
    /\ pc[t] = "trim"
    /\ IF currentSizeBytes_ > maxSizeBytes_ /\ chunks_ # <<>>
       THEN /\ currentSizeBytes_' = SizeSub(currentSizeBytes_, GetChunkSize(Head(chunks_)))
            /\ chunks_' = Tail(chunks_)
            /\ UNCHANGED pc
       ELSE /\ pc' = [pc EXCEPT ![t] = "unlock"]
            /\ UNCHANGED <<chunks_, currentSizeBytes_>>
    /\ UNCHANGED <<float32Chunks_, maxSizeBytes_, histVars, addonVars, obsVars, clock, mutex_,
                   call, locals, snap>>

\* Pop, between the lock and the return
PopStep(t) ==
    /\ pc[t] = "locked"
    /\ call[t].op = "Pop"
    /\ IF chunks_ = <<>>
       THEN /\ locals' = [locals EXCEPT ![t].result = RBool(FALSE)]
            /\ UNCHANGED <<chunks_, currentSizeBytes_>>
       ELSE LET p == PopFront(chunks_, currentSizeBytes_)
            IN /\ locals' = [locals EXCEPT ![t].result = RBool(TRUE), ![t].out = p.chunk]
               /\ currentSizeBytes_' = p.size
               /\ chunks_' = p.chunks
    /\ pc' = [pc EXCEPT ![t] = "unlock"]
    /\ UNCHANGED <<float32Chunks_, maxSizeBytes_, histVars, addonVars, obsVars, clock, mutex_,
                   call, snap>>

ResultSoFar(t) == locals[t].result.chunks

\* one test of PopMultiple's loop condition, and one pass of its body when it holds
PopMultipleStep(t) ==
    /\ pc[t] = "locked"
    /\ call[t].op = "PopMultiple"
    /\ IF chunks_ # <<>> /\ locals[t].count < call[t].arg[1]
       THEN LET p == PopFront(chunks_, currentSizeBytes_)
            IN /\ currentSizeBytes_' = p.size
               /\ chunks_' = p.chunks
               /\ locals' = [locals EXCEPT ![t].result = RChunks(Append(ResultSoFar(t), p.chunk)),
                                           ![t].count = @ + 1]
               /\ UNCHANGED pc
       ELSE /\ locals' = [locals EXCEPT ![t].result = RChunks(ResultSoFar(t))]
            /\ pc' = [pc EXCEPT ![t] = "unlock"]
            /\ UNCHANGED <<chunks_, currentSizeBytes_>>
    /\ UNCHANGED <<float32Chunks_, maxSizeBytes_, histVars, addonVars, obsVars, clock, mutex_,
                   call, snap>>

\* one test of PopMultipleFloat32's loop condition, and one pass of its body
PopMultipleFloat32Step(t) ==
    /\ pc[t] = "locked"
    /\ call[t].op = "PopMultipleFloat32"
    /\ IF float32Chunks_ # <<>> /\ locals[t].count < call[t].arg[1]
       THEN /\ currentSizeBytes_' =
                   SizeSub(currentSizeBytes_, Float32ChunkSize(Head(float32Chunks_)))
            /\ float32Chunks_' = Tail(float32Chunks_)
            /\ locals' = [locals EXCEPT
                              ![t].result = RChunks(Append(ResultSoFar(t), Head(float32Chunks_))),
                              ![t].count = @ + 1]
            /\ UNCHANGED pc
       ELSE /\ locals' = [locals EXCEPT ![t].result = RChunks(ResultSoFar(t))]
            /\ pc' = [pc EXCEPT ![t] = "unlock"]
            /\ UNCHANGED <<float32Chunks_, currentSizeBytes_>>
    /\ UNCHANGED <<chunks_, maxSizeBytes_, histVars, addonVars, obsVars, clock, mutex_, call, snap>>

\* chunks_.clear();
ClearChunks(t) ==
    /\ pc[t] = "locked"
    /\ call[t].op = "Clear"
    /\ chunks_' = <<>>
    /\ pc' = [pc EXCEPT ![t] = "clear2"]
    /\ UNCHANGED <<float32Chunks_, maxSizeBytes_, currentSizeBytes_, histVars, addonVars, obsVars,
                   clock, mutex_, call, locals, snap>>

\* float32Chunks_.clear();
ClearFloat32(t) ==
    /\ pc[t] = "clear2"
    /\ float32Chunks_' = <<>>
    /\ pc' = [pc EXCEPT ![t] = "clear3"]
    /\ UNCHANGED <<chunks_, maxSizeBytes_, currentSizeBytes_, histVars, addonVars, obsVars,
                   clock, mutex_, call, locals, snap>>

\* currentSizeBytes_ = 0;
ClearSize(t) ==
    /\ pc[t] = "clear3"
    /\ currentSizeBytes_' = 0
    /\ pc' = [pc EXCEPT ![t] = "unlock"]
    /\ UNCHANGED <<chunks_, float32Chunks_, maxSizeBytes_, histVars, addonVars, obsVars,
                   clock, mutex_, call, locals, snap>>

\* return currentSizeBytes_;
GetSizeStep(t) ==
    /\ pc[t] = "locked"
    /\ call[t].op = "GetSize"
    /\ locals' = [locals EXCEPT ![t].result = RSize(currentSizeBytes_)]
    /\ pc' = [pc EXCEPT ![t] = "unlock"]
    /\ UNCHANGED <<bufVars, histVars, addonVars, obsVars, clock, mutex_, call, snap>>

\* maxSizeBytes_ = maxSizeBytes;
SetMaxSizeStore(t) ==
    /\ pc[t] = "locked"
    /\ call[t].op = "SetMaxSize"
    /\ maxSizeBytes_' = call[t].arg[1]
    /\ pc' = [pc EXCEPT ![t] = "trim"]
    /\ UNCHANGED <<chunks_, float32Chunks_, currentSizeBytes_, histVars, addonVars, obsVars,
                   clock, mutex_, call, locals, snap>>

\* the lock_guard goes out of scope and the operation returns
Unlock(t) ==
    /\ pc[t] = "unlock"
    /\ mutex_' = NoThread
    /\ pc' = [pc EXCEPT ![t] = "idle"]
    /\ call' = [call EXCEPT ![t] = NoCall]
    /\ locals' = [locals EXCEPT ![t] = NoLocals]
    /\ snap' = NoSnap
    /\ UNCHANGED <<bufVars, histVars, addonVars, obsVars, clock>>

\* what thread t does between taking the mutex and returning
Progress(t) ==
    \/ PushBack(t)
    \/ PushBackFloat32(t)
    \/ AddSize(t)
    \/ TrimStep(t)
    \/ PopStep(t)
    \/ PopMultipleStep(t)
    \/ PopMultipleFloat32Step(t)
    \/ ClearChunks(t)
    \/ ClearFloat32(t)
    \/ ClearSize(t)
    \/ GetSizeStep(t)
    \/ SetMaxSizeStore(t)
    \/ Unlock(t)

\* thread t passes the head of the operation it called
Enter(t) == \E c \in CallsOf(t) : EarlyReturn(t, c) \/ Lock(t, c)

NextConc ==
    \/ \E t \in Threads : Invoke(t)
    \/ \E t \in Threads : \E c \in CallsOf(t) : EarlyReturn(t, c)
    \/ \E t \in Threads : \E c \in CallsOf(t) : Lock(t, c)
    \/ \E t \in Threads : PushBack(t)
    \/ \E t \in Threads : PushBackFloat32(t)
    \/ \E t \in Threads : AddSize(t)
    \/ \E t \in Threads : TrimStep(t)
    \/ \E t \in Threads : PopStep(t)
    \/ \E t \in Threads : PopMultipleStep(t)
    \/ \E t \in Threads : PopMultipleFloat32Step(t)
    \/ \E t \in Threads : ClearChunks(t)
    \/ \E t \in Threads : ClearFloat32(t)
    \/ \E t \in Threads : ClearSize(t)
    \/ \E t \in Threads : GetSizeStep(t)
    \/ \E t \in Threads : SetMaxSizeStore(t)
    \/ \E t \in Threads : Unlock(t)

SpecConc == Init /\ [][NextConc]_vars

\* the scheduler runs every thread that can step, and a thread that finds the mutex
\* free again and again eventually takes it
FairConc == \A t \in Threads : WF_vars(Progress(t)) /\ SF_vars(Enter(t))

SpecConcFair == Init /\ [][NextConc]_vars /\ FairConc

\* every thread is a capture callback or a poller: the calls any thread may make
\* when several threads push
PusherCalls ==
    {[op |-> "Push", arg |-> << <<100>>, 48000, 1 >>],
     [op |-> "PushFloat32", arg |-> << <<F(1, -1)>>, 48000, 1 >>],
     [op |-> "PopMultiple", arg |-> <<2>>],
     [op |-> "PopMultipleFloat32", arg |-> <<2>>]}

\* the steady clock advances while the threads run
NextPushers ==
    \/ \E t \in Threads : Invoke(t)
    \/ \E t \in Threads : \E c \in PusherCalls : Lock(t, c)
    \/ \E t \in Threads : PushBack(t)
    \/ \E t \in Threads : PushBackFloat32(t)
    \/ \E t \in Threads : AddSize(t)
    \/ \E t \in Threads : TrimStep(t)
    \/ \E t \in Threads : PopMultipleStep(t)
    \/ \E t \in Threads : PopMultipleFloat32Step(t)
    \/ \E t \in Threads : Unlock(t)
    \/ Tick

SpecPushers == Init /\ [][NextPushers]_vars

(* ---------------------- the capture pipeline -------------------------- *)

\* the constructor's budget, 5 * 1024 * 1024 bytes, scaled down so that a
\* few captured samples fill it
PipeBudget == 8

\* a float's significand holds 24 bits
MantissaLimit == 16777216

RECURSIVE Pow2(_)
Pow2(k) == IF k = 0 THEN 1 ELSE 2 * Pow2(k - 1)

Abs(n) == IF n < 0 THEN -n ELSE n

Sign(n) == IF n < 0 THEN -1 ELSE 1

\* the one representation of a value: an odd significand, or zero
RECURSIVE Norm(_, _)
Norm(m, e) ==
    IF m = 0 THEN F(0, 0)
    ELSE IF m % 2 = 0 THEN Norm(m \div 2, e + 1) ELSE F(m, e)

\* the bits a magnitude loses when it is stored in a float
RECURSIVE ExcessBits(_)
ExcessBits(a) == IF a < MantissaLimit THEN 0 ELSE 1 + ExcessBits(a \div 2)

\* m * 2^e stored in a float: round to nearest, ties to even (the exponent
\* range is not modelled; the inputs stay far from it)
RoundF(m, e) ==
    LET a == Abs(m)
        s == ExcessBits(a)
        q == a \div Pow2(s)
        r == a % Pow2(s)
        up == s > 0 /\ (2 * r > Pow2(s) \/ (2 * r = Pow2(s) /\ q % 2 = 1))
    IN Norm(Sign(m) * (IF up THEN q + 1 ELSE q), e + s)

\* float + float
FAdd(x, y) ==
    LET e == Min(x.e, y.e)
    IN RoundF(x.m * Pow2(x.e - e) + y.m * Pow2(y.e - e), e)

\* the shift that gives a quotient by n two bits more than a float keeps
RECURSIVE QuotientShift(_, _)
QuotientShift(a, n) == IF a >= n * 2 * MantissaLimit THEN 0 ELSE 1 + QuotientShift(2 * a, n)

\* float / n, n a channel count promoted to float
FDiv(x, n) ==
    IF x.m = 0 THEN F(0, 0)
    ELSE LET a == Abs(x.m)
             k == QuotientShift(a, n)
             q == (a * Pow2(k)) \div n
             sticky == IF (a * Pow2(k)) % n = 0 THEN 0 ELSE 1
         IN RoundF(Sign(x.m) * (2 * q + sticky), x.e - k - 1)

\* reinterpret_cast<const int16_t*>: two little-endian bytes
Int16At(data, i) ==
    LET u == data[2 * i + 1] + 256 * data[2 * i + 2]
    IN IF u >= 32768 THEN u - 65536 ELSE u

\* reinterpret_cast<const int32_t*>: four little-endian bytes
Int32At(data, i) ==
    LET hi == data[4 * i + 4]
    IN data[4 * i + 1] + 256 * data[4 * i + 2] + 65536 * data[4 * i + 3]
       + 16777216 * (IF hi >= 128 THEN hi - 256 ELSE hi)

\* reinterpret_cast<const float*>: four little-endian bytes of an IEEE-754
\* single (finite values; the inputs carry no infinity or NaN)
FloatAt(data, i) ==
    LET b3 == data[4 * i + 3]
        b4 == data[4 * i + 4]
        sgn == IF b4 >= 128 THEN -1 ELSE 1
        ex == (b4 % 128) * 2 + b3 \div 128
        frac == data[4 * i + 1] + 256 * data[4 * i + 2] + 65536 * (b3 % 128)
    IN IF ex = 0 THEN Norm(sgn * frac, -149)
       ELSE Norm(sgn * (8388608 + frac), ex - 150)

\* int16Samples[i] / 32768.0f
Int16ToFloat(v) == Norm(v, -15)

\* int32Samples[i] / 2147483648.0f
Int32ToFloat(v) == LET f == RoundF(v, 0) IN Norm(f.m, f.e - 31)

\* step 1 of ConvertToMonoFloat32: the raw bytes as float samples
DecodeSamples(input) ==
    LET data == input.data
        fmt == input.format
        frameCount == Len(data) \div (4 * fmt.channels)
        totalSamples == frameCount * fmt.channels
    IN IF fmt.bitsPerSample = 16
       THEN [i \in 1..(Len(data) \div 2) |-> Int16ToFloat(Int16At(data, i - 1))]
       ELSE IF fmt.isFloat
       THEN IF fmt.isNonInterleaved /\ fmt.channels = 2
            THEN [i \in 1..totalSamples |->
                     IF i % 2 = 1 THEN FloatAt(data, (i - 1) \div 2)
                     ELSE FloatAt(data, frameCount + (i - 2) \div 2)]
            ELSE [i \in 1..totalSamples |-> FloatAt(data, i - 1)]
       ELSE [i \in 1..totalSamples |-> Int32ToFloat(Int32At(data, i - 1))]

\* float sum = 0.0f; sum += samples[frame * channels + ch] for each channel
RECURSIVE FrameSum(_, _, _, _)
FrameSum(samples, frame, channels, ch) ==
    IF ch = 0 THEN F(0, 0)
    ELSE FAdd(FrameSum(samples, frame, channels, ch - 1),
              samples[frame * channels + ch])

\* a mutant of Downmix: the channels are summed and not divided
DownmixSum(samples, channels) ==
    IF channels > 1
    THEN [f \in 1..(Len(samples) \div channels) |->
             FrameSum(samples, f - 1, channels, channels)]
    ELSE samples

\* step 2 of ConvertToMonoFloat32: the mean of each frame's channels
Downmix(samples, channels) ==
    IF channels > 1
    THEN [f \in 1..(Len(samples) \div channels) |->
             FDiv(FrameSum(samples, f - 1, channels, channels), channels)]
    ELSE samples

ConvertToMonoFloat32(input) ==
    IF input.data = <<>> THEN <<>>
    ELSE IF input.format.bitsPerSample \notin {16, 32} THEN <<>>
    ELSE Downmix(DecodeSamples(input), input.format.channels)

AudioFormat(sampleRate, channels, bitsPerSample, isFloat, isNonInterleaved) ==
    [sampleRate |-> sampleRate, channels |-> channels,
     bitsPerSample |-> bitsPerSample, isFloat |-> isFloat,
     isNonInterleaved |-> isNonInterleaved]

AudioSample(data, format) == [data |-> data, format |-> format]

\* what the platform capture hands to the callback
CapturedSamples ==
    {AudioSample(<<>>, AudioFormat(48000, 1, 16, FALSE, FALSE)),
     AudioSample(<<0, 64, 0, 192>>, AudioFormat(48000, 1, 16, FALSE, FALSE)),
     AudioSample(<<0, 64, 0, 32>>, AudioFormat(44100, 2, 16, FALSE, FALSE)),
     AudioSample(<<0, 0, 0, 63>>, AudioFormat(48000, 1, 32, TRUE, FALSE)),
     AudioSample(<<0, 0, 128, 63, 0, 0, 0, 0, 0, 0, 128, 191, 0, 0, 0, 63>>,
                 AudioFormat(44100, 2, 32, TRUE, TRUE)),
     AudioSample(<<0, 0, 0, 64>>, AudioFormat(48000, 1, 32, FALSE, FALSE)),
     AudioSample(<<1, 2, 3>>, AudioFormat(48000, 1, 24, FALSE, FALSE))}

\* AudioCaptureWrapper's constructor: audioBuffer_ = make_unique<AudioBuffer>(5MB)
InitPipe == InitState(PipeBudget, FALSE)

ProcessAndBufferAudio(sample) ==
    LET float32Data == ConvertToMonoFloat32(sample)
    IN IF float32Data # <<>>
       THEN PushFloat32(float32Data, 48000, 1)
       ELSE /\ last' = Obs(last, [op |-> "ProcessAndBufferAudio", arg |-> 0])
            /\ result' = Obs(result, NoResult)
            /\ evicted' = Obs(evicted, 0)
            /\ UNCHANGED <<bufVars, histVars, clock, outChunk, concVars, addonVars>>

\* the capture callback; the JavaScript callback it may also invoke does not
\* touch the buffer
OnAudioData(sample) == ProcessAndBufferAudio(sample)

\* GetBufferedAudio: audioBuffer_->PopMultiple(1000)
GetBufferedAudio == PopMultiple(1000)

\* GetBufferedFloat32Audio: audioBuffer_->PopMultipleFloat32(1000)
GetBufferedFloat32Audio == PopMultipleFloat32(1000)

\* ClearBuffer: audioBuffer_->Clear()
ClearBuffer == Clear

NextPipe ==
    \/ \E sample \in CapturedSamples : OnAudioData(sample)
    \/ GetBufferedAudio
    \/ GetBufferedFloat32Audio
    \/ ClearBuffer
    \/ Tick

SpecPipe == InitPipe /\ [][NextPipe]_vars

(* ------------------------- the const queries -------------------------- *)

\* float / float, for the divisors the budgets give
FDivF(x, y) ==
    LET q == FDiv(x, Abs(y.m))
    IN IF q.m = 0 THEN q ELSE Norm(Sign(y.m) * q.m, q.e - y.e)

\* the bits of a magnitude
RECURSIVE BitLen(_)
BitLen(a) == IF a = 0 THEN 0 ELSE 1 + BitLen(a \div 2)

\* x <= y on floats: by sign, then by the position of the leading bit, then
\* by the significands brought to one exponent
FLeq(x, y) ==
    IF x.m = 0 THEN y.m >= 0
    ELSE IF y.m = 0 THEN x.m < 0
    ELSE IF Sign(x.m) # Sign(y.m) THEN x.m < 0
    ELSE LET tx == x.e + BitLen(Abs(x.m))
             ty == y.e + BitLen(Abs(y.m))
             e == Min(x.e, y.e)
         IN IF tx # ty THEN (IF x.m > 0 THEN tx < ty ELSE tx > ty)
            ELSE x.m * Pow2(x.e - e) <= y.m * Pow2(y.e - e)

\* static_cast<float>(currentSizeBytes_) / static_cast<float>(maxSizeBytes_)
UsageOf(cur, max) ==
    IF max = 0 THEN F(0, 0) ELSE FDivF(RoundF(cur, 0), RoundF(max, 0))

\* the loop divides by a chunk's channel count of 0
DurationDividesByZero(q) == \E i \in 1..Len(q) : q[i].channels = 0

\* totalSamples += chunk.data.size() / chunk.channels, over the deque; where
\* a division by zero does not trap its quotient is 0
RECURSIVE TotalSamples(_)
TotalSamples(q) ==
    IF q = <<>> THEN 0
    ELSE (IF Head(q).channels = 0 THEN 0 ELSE Len(Head(q).data) \div Head(q).channels)
         + TotalSamples(Tail(q))

\* a mutant of DurationMsOf: the result is left in seconds
DurationSecondsOf(q) ==
    IF q = <<>> THEN 0
    ELSE IF q[Len(q)].sampleRate = 0 THEN 0
    ELSE TotalSamples(q) \div q[Len(q)].sampleRate

\* the body of GetBufferedDurationMs under the lock
DurationMsOf(q) ==
    IF q = <<>> THEN 0
    ELSE LET avgSampleRate == q[Len(q)].sampleRate
         IN IF avgSampleRate = 0 THEN 0
            ELSE (TotalSamples(q) * 1000) \div avgSampleRate

\* a query leaves the buffer as it is and hands back a value
Query(op, value) ==
    /\ last' = Obs(last, [op |-> op, arg |-> 0])
    /\ result' = Obs(result, value)
    /\ evicted' = Obs(evicted, 0)
    /\ UNCHANGED <<bufVars, histVars, clock, outChunk, concVars, addonVars>>

\* a mutant of IsEmpty: the answer is negated
IsEmptyNegated == Query("IsEmpty", chunks_ # <<>>)

IsEmpty == Query("IsEmpty", chunks_ = <<>>)

GetUsagePercentage ==
    Query("GetUsagePercentage", UsageOf(currentSizeBytes_, maxSizeBytes_))

\* a mutant of GetBufferedDurationMs: the float32 deque is measured
GetBufferedDurationMsFloat32 ==
    Query("GetBufferedDurationMs", DurationMsOf(float32Chunks_))

\* what stands for a call that trapped: no uint64_t is negative
Trapped == -1

\* an integer division by zero traps, or yields 0 and the loop goes on
DurationOutcomes(q) ==
    IF DurationDividesByZero(q) THEN {Trapped, DurationMsOf(q)} ELSE {DurationMsOf(q)}

GetBufferedDurationMs ==
    \E o \in DurationOutcomes(chunks_) : Query("GetBufferedDurationMs", o)

\* the 20 ms frame of the capture path: 960 samples
Frame960 == [i \in 1..960 |-> ((i * 37) % 200) - 100]

\* a frame whose chunk, 2060 bytes, is larger than every budget of these runs
Frame1010 == [i \in 1..1010 |-> 0]

\* (audioData, sampleRate, channels) arguments of Push in the runs with queries
QueryPushArgs ==
    {<< <<>>, 48000, 1 >>, << <<100>>, 48000, 1 >>, << <<-7, 200>>, 100, 2 >>,
     << <<9>>, 0, 1 >>, << Frame960, 48000, 1 >>, << Frame1010, 48000, 1 >>,
     << <<3, 4, 5>>, 48000, 0 >>}

\* budgets of the runs with queries
QueryBudgets == {0, 4, 2048}

InitQuery == \E b \in QueryBudgets : InitState(b, FALSE)

NextQuery ==
    \/ \E a \in QueryPushArgs : Push(a[1], a[2], a[3])
    \/ \E a \in PushFloat32Args : PushFloat32(a[1], a[2], a[3])
    \/ Pop
    \/ PopMultiple(1000)
    \/ PopMultipleFloat32(1000)
    \/ Clear
    \/ GetSize
    \/ IsEmpty
    \/ GetUsagePercentage
    \/ GetBufferedDurationMs
    \/ \E b \in QueryBudgets : SetMaxSize(b)

SpecQuery == InitQuery /\ [][NextQuery]_vars

(* ----------------------- ConvertToPCM16 ------------------------------- *)

\* static_cast<int16_t> of an integer: the low 16 bits, as a signed value
ToInt16(n) == ((n + 32768) % 65536) - 32768

\* std::fmax(-1.0f, std::fmin(1.0f, sample))
FClamp(x) ==
    IF FLeq(x, F(-1, 0)) THEN F(-1, 0)
    ELSE IF FLeq(F(1, 0), x) THEN F(1, 0) ELSE x

\* std::lrintf: the nearest integer, ties to even (the default rounding mode)
LRint(x) ==
    IF x.e >= 0 THEN x.m * Pow2(x.e)
    ELSE IF -x.e > 30 THEN 0
    ELSE LET a == Abs(x.m)
             p == Pow2(-x.e)
             q == a \div p
             r == a % p
             up == 2 * r > p \/ (2 * r = p /\ q % 2 = 1)
         IN Sign(x.m) * (IF up THEN q + 1 ELSE q)

\* sample * 32768.0f
Times32768(x) == IF x.m = 0 THEN x ELSE F(x.m, x.e + 15)

\* one iteration of FloatToInt16, and of the planar branch of ConvertToPCM16
FloatToInt16Sample(x) == ToInt16(LRint(Times32768(FClamp(x))))

\* FloatToInt16(samples, count)
FloatToInt16(data, count) == [i \in 1..count |-> FloatToInt16Sample(FloatAt(data, i - 1))]

\* Int32ToInt16(samples, count): static_cast<int16_t>(sample32 >> 16)
Int32ToInt16(data, count) == [i \in 1..count |-> ToInt16(Int32At(data, i - 1) \div 65536)]

\* a mutant of Int24At: the bytes are read most significant first
Int24AtBigEndian(data, i) ==
    LET u == data[3 * i + 3] + 256 * data[3 * i + 2] + 65536 * data[3 * i + 1]
    IN IF u >= 8388608 THEN u - 16777216 ELSE u

\* three little-endian bytes, sign-extended from bit 23
Int24At(data, i) ==
    LET u == data[3 * i + 1] + 256 * data[3 * i + 2] + 65536 * data[3 * i + 3]
    IN IF u >= 8388608 THEN u - 16777216 ELSE u

\* a mutant of StereoToMono: the left channel is kept
StereoToMonoLeft(stereoData) ==
    IF Len(stereoData) % 2 # 0 THEN <<>>
    ELSE [i \in 1..(Len(stereoData) \div 2) |-> stereoData[2 * i - 1]]

\* (left + right) >> 1 over pairs; an odd length gives nothing
StereoToMono(stereoData) ==
    IF Len(stereoData) % 2 # 0 THEN <<>>
    ELSE [i \in 1..(Len(stereoData) \div 2) |->
             ToInt16((stereoData[2 * i - 1] + stereoData[2 * i]) \div 2)]

\* step 1 of ConvertToPCM16: the raw bytes as int16 samples
DecodePCM16(input) ==
    LET data == input.data
        fmt == input.format
        frameCount == Len(data) \div (4 * fmt.channels)
        totalSamples == frameCount * fmt.channels
    IN IF fmt.bitsPerSample = 16
       THEN [i \in 1..(Len(data) \div 2) |-> Int16At(data, i - 1)]
       ELSE IF fmt.bitsPerSample = 24
       THEN [i \in 1..(Len(data) \div 3) |-> ToInt16(Int24At(data, i - 1) \div 256)]
       ELSE IF fmt.isFloat
       THEN IF fmt.isNonInterleaved /\ fmt.channels = 2
            THEN [i \in 1..totalSamples |->
                     IF i % 2 = 1
                     THEN FloatToInt16Sample(FloatAt(data, (i - 1) \div 2))
                     ELSE FloatToInt16Sample(FloatAt(data, frameCount + (i - 2) \div 2))]
            ELSE FloatToInt16(data, totalSamples)
       ELSE Int32ToInt16(data, totalSamples)

\* a mutant of ConvertToPCM16: every depth but 16 and 32 is read as 24-bit
ConvertToPCM16AnyDepth(input, targetSampleRate, targetChannels) ==
    IF input.data = <<>> THEN <<>>
    ELSE LET samples ==
                 DecodePCM16([input EXCEPT !.format.bitsPerSample =
                                  IF @ \in {16, 32} THEN @ ELSE 24])
         IN IF input.format.channels > 1 /\ targetChannels = 1
            THEN StereoToMono(samples) ELSE samples

ConvertToPCM16(input, targetSampleRate, targetChannels) ==
    IF input.data = <<>> THEN <<>>
    ELSE IF input.format.bitsPerSample \notin {16, 24, 32} THEN <<>>
    ELSE LET samples == DecodePCM16(input)
         IN IF input.format.channels > 1 /\ targetChannels = 1
            THEN StereoToMono(samples) ELSE samples

(* ------------------- the converters, called directly ------------------ *)

\* what a call comes to: a fault of the process, or a returned sequence
Faulted == [fault |-> TRUE, out |-> <<>>]

Returned(out) == [fault |-> FALSE, out |-> out]

\* input.data.size() / (4 * input.format.channels) with channels = 0
DividesByZero(input) ==
    /\ input.data # <<>>
    /\ input.format.bitsPerSample = 32
    /\ input.format.channels = 0

\* std::memcpy of data.size() bytes into sampleCount * 2 bytes
CopyOverruns(input) ==
    /\ input.data # <<>>
    /\ input.format.bitsPerSample = 16
    /\ Len(input.data) % 2 = 1

\* an integer division by zero traps, or yields 0 and the call returns nothing
ConvertToMonoFloat32Outcomes(input) ==
    IF DividesByZero(input) THEN {Faulted, Returned(<<>>)}
    ELSE {Returned(ConvertToMonoFloat32(input))}

\* a write one byte past the vector corrupts the heap, or goes unnoticed
ConvertToPCM16Outcomes(input, targetSampleRate, targetChannels) ==
    IF DividesByZero(input) THEN {Faulted, Returned(<<>>)}
    ELSE IF CopyOverruns(input)
    THEN {Faulted, Returned(ConvertToPCM16(input, targetSampleRate, targetChannels))}
    ELSE {Returned(ConvertToPCM16(input, targetSampleRate, targetChannels))}

ConvertToMonoFloat32Call(input) ==
    /\ last' = Obs(last, [op |-> "ConvertToMonoFloat32", arg |-> <<input, 0, 0>>])
    /\ \E o \in ConvertToMonoFloat32Outcomes(input) : result' = Obs(result, o)
    /\ evicted' = Obs(evicted, 0)
    /\ UNCHANGED <<bufVars, histVars, clock, outChunk, concVars, addonVars>>

ConvertToPCM16Call(input, targetSampleRate, targetChannels) ==
    /\ last' = Obs(last, [op |-> "ConvertToPCM16",
                          arg |-> <<input, targetSampleRate, targetChannels>>])
    /\ \E o \in ConvertToPCM16Outcomes(input, targetSampleRate, targetChannels) :
           result' = Obs(result, o)
    /\ evicted' = Obs(evicted, 0)
    /\ UNCHANGED <<bufVars, histVars, clock, outChunk, concVars, addonVars>>

\* byte strings of 16-bit samples: whole, extreme, and with a byte left over
Bytes16 ==
    {<<0, 64, 0, 192>>, <<255, 127, 0, 128>>, <<100, 0, 200, 0, 156, 255, 56, 255>>,
     <<1, 2, 3>>, <<0, 64, 0, 32, 0, 16>>}

\* byte strings of 24-bit samples
Bytes24 ==
    {<<0, 0, 128>>, <<255, 255, 127>>, <<0, 0, 128, 255, 255, 127>>,
     <<255, 255, 255, 0, 1, 0>>, <<1, 2, 3, 4>>}

\* byte strings of floats: 0.5; 1.0, -1.0; 2.0, -0.25; 1.0, 0.0, -1.0, 0.5;
\* 0.5 and a byte left over
BytesFloat ==
    {<<0, 0, 0, 63>>, <<0, 0, 128, 63, 0, 0, 128, 191>>,
     <<0, 0, 0, 64, 0, 0, 128, 190>>,
     <<0, 0, 128, 63, 0, 0, 0, 0, 0, 0, 128, 191, 0, 0, 0, 63>>,
     <<0, 0, 0, 63, 7>>}

\* byte strings of 32-bit integers
BytesInt32 ==
    {<<0, 0, 0, 64>>, <<255, 255, 255, 127, 0, 0, 1, 128>>,
     <<0, 0, 255, 255, 0, 0, 1, 0>>, <<1, 2, 3, 4, 5, 6>>}

\* samples of three and four interleaved channels: 0.5 in every channel;
\* 100, 200, -100, -200; 0.5, 0, 0; and 0.5 in every channel as floats
WideInputs ==
    {AudioSample(d, AudioFormat(48000, 4, 16, FALSE, FALSE)) :
         d \in {<<0, 64, 0, 64, 0, 64, 0, 64>>, <<100, 0, 200, 0, 156, 255, 56, 255>>}}
    \cup {AudioSample(<<0, 64, 0, 0, 0, 0>>, AudioFormat(48000, 3, 16, FALSE, FALSE)),
          AudioSample(<<0, 0, 0, 63, 0, 0, 0, 63, 0, 0, 0, 63, 0, 0, 0, 63>>,
                      AudioFormat(48000, 4, 32, TRUE, FALSE))}

\* what a caller hands to the converters, well formed or not
ConverterInputs ==
    WideInputs \cup
    {AudioSample(<<>>, AudioFormat(48000, 1, 16, FALSE, FALSE))}
    \cup {AudioSample(d, AudioFormat(48000, ch, 16, FALSE, FALSE)) :
              d \in Bytes16, ch \in {1, 2}}
    \cup {AudioSample(d, AudioFormat(44100, ch, 24, FALSE, FALSE)) :
              d \in Bytes24, ch \in {1, 2}}
    \cup {AudioSample(d, AudioFormat(48000, 1, 32, TRUE, FALSE)) : d \in BytesFloat}
    \cup {AudioSample(d, AudioFormat(48000, 2, 32, TRUE, ni)) :
              d \in BytesFloat, ni \in BOOLEAN}
    \cup {AudioSample(d, AudioFormat(96000, ch, 32, FALSE, FALSE)) :
              d \in BytesInt32, ch \in {1, 2}}
    \cup {AudioSample(<<1, 2, 3, 4, 5, 6>>, AudioFormat(48000, ch, b, FALSE, FALSE)) :
              ch \in {1, 2}, b \in {0, 8, 12, 64}}
    \cup {AudioSample(<<0, 0, 0, 63>>, AudioFormat(48000, 0, b, fl, FALSE)) :
              b \in {16, 24, 32}, fl \in BOOLEAN}

\* int16 sequences handed to StereoToMono: of even and of odd length
StereoInputs ==
    {<<>>, <<100, 200, -100, -200>>, <<32767, 32767, -32768, -32768>>,
     <<-1, 0, 1, 2>>, <<-32768, 32767>>, <<1, 2, 3>>, <<5>>}

StereoToMonoCall(stereoData) ==
    /\ last' = Obs(last, [op |-> "StereoToMono", arg |-> <<stereoData, 0, 0>>])
    /\ result' = Obs(result, Returned(StereoToMono(stereoData)))
    /\ evicted' = Obs(evicted, 0)
    /\ UNCHANGED <<bufVars, histVars, clock, outChunk, concVars, addonVars>>

\* outputChannels the callers ask ConvertToPCM16 for
TargetChannels == {1, 2}

\* captured samples of a depth the float path does not decode
UnsupportedSamples ==
    {AudioSample(<<1, 2, 3>>, AudioFormat(48000, 1, 24, FALSE, FALSE)),
     AudioSample(<<1, 2, 3, 4>>, AudioFormat(48000, 2, 8, FALSE, FALSE))}

\* the samples the capture callback delivers while the converters are probed
ProbeSamples ==
    UnsupportedSamples \cup {AudioSample(<<0, 0, 0, 63>>, AudioFormat(48000, 1, 32, TRUE, FALSE))}

NextConv ==
    \/ \E input \in ConverterInputs : ConvertToMonoFloat32Call(input)
    \/ \E input \in ConverterInputs, tc \in TargetChannels :
           ConvertToPCM16Call(input, 16000, tc)
    \/ \E stereoData \in StereoInputs : StereoToMonoCall(stereoData)
    \/ \E sample \in ProbeSamples : OnAudioData(sample)
    \/ GetBufferedFloat32Audio

SpecConv == InitPipe /\ [][NextConv]_vars

(* ----------------------- the JavaScript callback ---------------------- *)

\* the thread that runs WindowsAudioCapture::CaptureThreadFunction and OnAudioData
CaptureThread == "producer"

\* the thread that runs the addon's methods and the JavaScript it calls
HostThread == "consumer1"

\* ProcessAndBufferAudio: PushFloat32(float32Data, 48000, 1), skipped for empty data
CaptureCalls ==
    {[op |-> "PushFloat32", arg |-> << <<F(1, -1)>>, 48000, 1 >>],
     [op |-> "PushFloat32", arg |-> << <<>>, 48000, 1 >>]}

\* GetBufferedFloat32Audio: audioBuffer_->PopMultipleFloat32(1000)
HostCalls == {[op |-> "PopMultipleFloat32", arg |-> <<1000>>]}

\* the host thread runs one thing at a time
HostIdle == hostPc = "idle" /\ pc[HostThread] = "idle"

CaptureIdle == capturePc = "idle" /\ pc[CaptureThread] = "idle"

\* the function Napi::ThreadSafeFunction::New makes next
NextFunction == IF jsCallback_ = NoFunction THEN 1 ELSE jsCallback_ + 1

\* Start: audioCapture_->Start() creates the capture thread
Start ==
    /\ HostIdle
    /\ ~capturing
    /\ capturing' = TRUE
    /\ UNCHANGED <<bufVars, histVars, obsVars, clock, concVars, jsCallback_, hasJSCallback_,
                   released, hostPc, capturePc, queued, blockingCall>>

\* Stop: audioCapture_->Stop() returns once the capture thread is joined
Stop ==
    /\ HostIdle
    /\ capturing
    /\ CaptureIdle
    /\ capturing' = FALSE
    /\ UNCHANGED <<bufVars, histVars, obsVars, clock, concVars, jsCallback_, hasJSCallback_,
                   released, hostPc, capturePc, queued, blockingCall>>

\* SetAudioCallback is called with a function
SetAudioCallback ==
    /\ HostIdle
    /\ NextFunction <= MaxCallbacks
    /\ hostPc' = "release"
    /\ UNCHANGED <<bufVars, histVars, obsVars, clock, concVars, jsCallback_, hasJSCallback_,
                   released, capturing, capturePc, queued, blockingCall>>

\* if (jsCallback_) jsCallback_.Release();
ReleasePrevious ==
    /\ hostPc = "release"
    /\ released' = IF jsCallback_ # NoFunction THEN released \cup {jsCallback_} ELSE released
    /\ hostPc' = "assign"
    /\ UNCHANGED <<bufVars, histVars, obsVars, clock, concVars, jsCallback_, hasJSCallback_,
                   capturing, capturePc, queued, blockingCall>>

\* jsCallback_ = Napi::ThreadSafeFunction::New(...);
AssignCallback ==
    /\ hostPc = "assign"
    /\ jsCallback_' = NextFunction
    /\ hostPc' = "flag"
    /\ UNCHANGED <<bufVars, histVars, obsVars, clock, concVars, hasJSCallback_, released,
                   capturing, capturePc, queued, blockingCall>>

\* hasJSCallback_ = true;
StoreHasCallback ==
    /\ hostPc = "flag"
    /\ hasJSCallback_' = TRUE
    /\ hostPc' = "idle"
    /\ UNCHANGED <<bufVars, histVars, obsVars, clock, concVars, jsCallback_, released,
                   capturing, capturePc, queued, blockingCall>>

\* ~AudioCaptureWrapper: if (IsCapturing()) Stop();
DestructorStop ==
    /\ HostIdle
    /\ capturing => CaptureIdle
    /\ capturing' = FALSE
    /\ hostPc' = "destructor"
    /\ UNCHANGED <<bufVars, histVars, obsVars, clock, concVars, jsCallback_, hasJSCallback_,
                   released, capturePc, queued, blockingCall>>

\* ~AudioCaptureWrapper: if (jsCallback_) jsCallback_.Release();
DestructorRelease ==
    /\ hostPc = "destructor"
    /\ released' = IF jsCallback_ # NoFunction THEN released \cup {jsCallback_} ELSE released
    /\ hostPc' = "destroyed"
    /\ UNCHANGED <<bufVars, histVars, obsVars, clock, concVars, jsCallback_, hasJSCallback_,
                   capturing, capturePc, queued, blockingCall>>

\* the host thread calls getBufferedFloat32Audio
HostInvoke ==
    /\ hostPc = "idle"
    /\ Invoke(HostThread)

\* the capture thread has a sample: OnAudioData starts with ProcessAndBufferAudio
Deliver ==
    /\ capturing
    /\ CaptureIdle
    /\ capturePc' = "buffer"
    /\ pc' = [pc EXCEPT ![CaptureThread] = "entry"]
    /\ UNCHANGED <<bufVars, histVars, obsVars, clock, mutex_, call, locals, snap,
                   jsCallback_, hasJSCallback_, released, capturing, hostPc, queued,
                   blockingCall>>

\* if (hasJSCallback_ && ...): the atomic flag is loaded first
ReadHasCallback ==
    /\ capturePc = "buffer"
    /\ pc[CaptureThread] = "idle"
    /\ capturePc' = IF hasJSCallback_ THEN "handle" ELSE "idle"
    /\ UNCHANGED <<bufVars, histVars, obsVars, clock, concVars, jsCallback_, hasJSCallback_,
                   released, capturing, hostPc, queued, blockingCall>>

\* if (... && jsCallback_): the handle is read with no lock
ReadCallback ==
    /\ capturePc = "handle"
    /\ capturePc' = IF jsCallback_ # NoFunction THEN "call" ELSE "idle"
    /\ UNCHANGED <<bufVars, histVars, obsVars, clock, concVars, jsCallback_, hasJSCallback_,
                   released, capturing, hostPc, queued, blockingCall>>

\* what jsCallback_.BlockingCall(sampleCopy, callback) does through the handle it
\* reads: a call is queued on a live function; on a released one N-API reports
\* that it is closing or the freed function is used
BlockingCallOutcomes ==
    IF jsCallback_ \in released THEN {"closing", "fault"} ELSE {"queued"}

\* jsCallback_.BlockingCall(sampleCopy, callback);
BlockingCall ==
    /\ capturePc = "call"
    /\ queued < MaxPending
    /\ \E outcome \in BlockingCallOutcomes :
          /\ blockingCall' = outcome
          /\ queued' = IF outcome = "queued" THEN queued + 1 ELSE queued
    /\ capturePc' = "idle"
    /\ UNCHANGED <<bufVars, histVars, obsVars, clock, concVars, jsCallback_, hasJSCallback_,
                   released, capturing, hostPc>>

\* the host's event loop runs the queued call: the lambda calls the JavaScript function
CallJs ==
    /\ HostIdle
    /\ queued > 0
    /\ queued' = queued - 1
    /\ hostPc' = "js"
    /\ UNCHANGED <<bufVars, histVars, obsVars, clock, concVars, jsCallback_, hasJSCallback_,
                   released, capturing, capturePc, blockingCall>>

\* the JavaScript function returns
ReturnFromJs ==
    /\ hostPc = "js"
    /\ hostPc' = "idle"
    /\ UNCHANGED <<bufVars, histVars, obsVars, clock, concVars, jsCallback_, hasJSCallback_,
                   released, capturing, capturePc, queued, blockingCall>>

NextAddon ==
    \/ Start
    \/ Stop
    \/ SetAudioCallback
    \/ ReleasePrevious
    \/ AssignCallback
    \/ StoreHasCallback
    \/ DestructorStop
    \/ DestructorRelease
    \/ HostInvoke
    \/ \E c \in HostCalls : Lock(HostThread, c)
    \/ PopMultipleFloat32Step(HostThread)
    \/ Unlock(HostThread)
    \/ Deliver
    \/ \E c \in CaptureCalls : EarlyReturn(CaptureThread, c)
    \/ \E c \in CaptureCalls : Lock(CaptureThread, c)
    \/ PushBackFloat32(CaptureThread)
    \/ AddSize(CaptureThread)
    \/ TrimStep(CaptureThread)
    \/ Unlock(CaptureThread)
    \/ ReadHasCallback
    \/ ReadCallback
    \/ BlockingCall
    \/ CallJs
    \/ ReturnFromJs

SpecAddon == InitPipe /\ [][NextAddon]_vars

(* ----------------------- what the claims measure ---------------------- *)

\* bytes of a deque of PCM16 chunks: header overhead + 2 bytes per sample, per chunk
RECURSIVE Pcm16Bytes(_)
Pcm16Bytes(q) == IF q = <<>> THEN 0 ELSE HeaderOverhead + 2 * Len(Head(q).data) + Pcm16Bytes(Tail(q))

\* bytes of a deque of float32 chunks: 4 bytes per sample
RECURSIVE Float32Bytes(_)
Float32Bytes(q) == IF q = <<>> THEN 0 ELSE 4 * Len(Head(q).data) + Float32Bytes(Tail(q))

\* s can be embedded in t, in order, each element of t used at most once
RECURSIVE IsSubseq(_, _)
IsSubseq(s, t) ==
    IF s = <<>> THEN TRUE
    ELSE IF t = <<>> THEN FALSE
    ELSE IF Head(s) = Head(t) THEN IsSubseq(Tail(s), Tail(t))
    ELSE IsSubseq(s, Tail(t))

IsPrefix(s, t) == Len(s) <= Len(t) /\ SubSeq(t, 1, Len(s)) = s

DropFirst(q, k) == SubSeq(q, k + 1, Len(q))

(* ------------------------------- C1 ----------------------------------- *)

\* C1: after every completed operation the byte counter equals the bytes of the
\* queued PCM16 chunks (header overhead + 2 per sample) plus the bytes of the queued
\* float32 chunks (4 per sample); it never wraps below zero.
C1_CounterIsQueuedBytes ==
    /\ currentSizeBytes_ = Pcm16Bytes(chunks_) + Float32Bytes(float32Chunks_)
    /\ currentSizeBytes_ \in 0..(SizeTModulus - 1)

\* an eviction has just run and chunks of both kinds are still queued
C1_Witness ==
    /\ evicted > 0
    /\ chunks_ # <<>>
    /\ float32Chunks_ # <<>>
    /\ currentSizeBytes_ = Pcm16Bytes(chunks_) + Float32Bytes(float32Chunks_)

(* ------------------------------- C2 ----------------------------------- *)

\* C2: after any Push or PushFloat32 returns, the byte counter is at most the budget.
C2_PushKeepsBudget ==
    last.op \in {"Push", "PushFloat32"} => currentSizeBytes_ <= maxSizeBytes_

(* ------------------------------- C3 ----------------------------------- *)

\* C3: after every push and every SetMaxSize, the counter is at most the budget or
\* the PCM16 deque is empty.
C3_BudgetOrPcm16Empty ==
    last.op \in {"Push", "PushFloat32", "SetMaxSize"} =>
        (currentSizeBytes_ <= maxSizeBytes_ \/ chunks_ = <<>>)

\* SetMaxSize evicted every PCM16 chunk and the float32 bytes still exceed the budget
C3_Witness ==
    /\ last.op = "SetMaxSize"
    /\ evicted > 0
    /\ chunks_ = <<>>
    /\ currentSizeBytes_ > maxSizeBytes_

(* ------------------------------- C4 ----------------------------------- *)

Inside == {"locked", "add", "trim", "clear2", "clear3", "unlock"}

\* what one whole operation c makes of buffer b, run alone, with what it returns
SerialEffect(b, c, ts) ==
    LET ret(q, f, m, n, r, o) ==
            [buf |-> [chunks |-> q, f32 |-> f, max |-> m, cur |-> n],
             result |-> r, out |-> o]
        chunk == [data |-> c.arg[1], timestamp |-> ts, sampleRate |-> c.arg[2],
                  channels |-> c.arg[3]]
    IN CASE c.op = "Push" ->
              LET t == TrimLoop(Append(b.chunks, chunk),
                                b.cur + HeaderOverhead + 2 * Len(chunk.data), b.max)
              IN ret(t.chunks, b.f32, b.max, t.size, RVoid, CallerChunk)
         [] c.op = "PushFloat32" ->
              LET t == TrimLoop(b.chunks, b.cur + 4 * Len(chunk.data), b.max)
              IN ret(t.chunks, Append(b.f32, chunk), b.max, t.size, RVoid, CallerChunk)
         [] c.op = "Pop" ->
              IF b.chunks = <<>>
              THEN ret(b.chunks, b.f32, b.max, b.cur, RBool(FALSE), CallerChunk)
              ELSE ret(Tail(b.chunks), b.f32, b.max,
                       b.cur - Pcm16Bytes(<<Head(b.chunks)>>), RBool(TRUE), Head(b.chunks))
         [] c.op = "PopMultiple" ->
              LET n == Min(c.arg[1], Len(b.chunks))
              IN ret(DropFirst(b.chunks, n), b.f32, b.max,
                     b.cur - Pcm16Bytes(SubSeq(b.chunks, 1, n)),
                     RChunks(SubSeq(b.chunks, 1, n)), CallerChunk)
         [] c.op = "PopMultipleFloat32" ->
              LET n == Min(c.arg[1], Len(b.f32))
              IN ret(b.chunks, DropFirst(b.f32, n), b.max,
                     b.cur - Float32Bytes(SubSeq(b.f32, 1, n)),
                     RChunks(SubSeq(b.f32, 1, n)), CallerChunk)
         [] c.op = "Clear" -> ret(<<>>, <<>>, b.max, 0, RVoid, CallerChunk)
         [] c.op = "GetSize" -> ret(b.chunks, b.f32, b.max, b.cur, RSize(b.cur), CallerChunk)
         [] c.op = "SetMaxSize" ->
              LET t == TrimLoop(b.chunks, b.cur, c.arg[1])
              IN ret(t.chunks, b.f32, c.arg[1], t.size, RVoid, CallerChunk)

\* C5: at most one thread is inside a mutex-guarded section, a thread touches the
\* deques, the counter or the budget only while it holds the mutex, the buffer is
\* consistent whenever the mutex is free, and when an operation reaches its return
\* the buffer and the result are those of the whole operation run alone on the
\* buffer it found when it took the mutex.
C5_Serialized ==
    /\ Cardinality({t \in Threads : pc[t] \in Inside}) <= 1
    /\ \A t \in Threads : pc[t] \in Inside <=> mutex_ = t
    /\ mutex_ = NoThread =>
           currentSizeBytes_ = Pcm16Bytes(chunks_) + Float32Bytes(float32Chunks_)
    /\ \A t \in Threads :
           pc[t] = "unlock" =>
               LET e == SerialEffect(snap, call[t], locals[t].timestamp)
               IN /\ BufState = e.buf
                  /\ locals[t].result = e.result
                  /\ locals[t].out = e.out

\* the producer is between push_back and the counter update while both consumers
\* wait for the mutex
C5_Witness ==
    /\ pc["producer"] = "add"
    /\ \A t \in Consumers : pc[t] = "entry"
    /\ mutex_ = "producer"
    /\ currentSizeBytes_ # Pcm16Bytes(chunks_) + Float32Bytes(float32Chunks_)

(* ------------------------------- C6 ----------------------------------- *)

\* C6: no thread asks for the mutex while it holds it, and under fair scheduling
\* every operation a thread has called returns, whatever the buffer holds.
C6_EveryCallReturns ==
    /\ [](\A t \in Threads : pc[t] = "entry" => mutex_ # t)
    /\ \A t \in Threads : (pc[t] # "idle") ~> (pc[t] = "idle")

\* a Push that evicted older chunks has reached its return while both consumers wait
C6_Witness ==
    /\ pc["producer"] = "unlock"
    /\ call["producer"].op = "Push"
    /\ snap.chunks # <<>>
    /\ Len(chunks_) <= Len(snap.chunks)
    /\ \A t \in Consumers : pc[t] = "entry"

(* ------------------------------- C7 ----------------------------------- *)

\* C7: in the capture pipeline, where every captured sample is decoded by
\* ConvertToMonoFloat32 and pushed with PushFloat32, the buffer's byte size
\* stays within the budget however rarely the consumer pops.
C7_PipelineBounded == currentSizeBytes_ <= maxSizeBytes_

(* ------------------------------- C8 ----------------------------------- *)

\* C8: PopMultiple(maxChunks) and PopMultipleFloat32(maxChunks) return the
\* min(maxChunks, length) oldest chunks of their deque in arrival order, remove
\* exactly those, keep the rest in order and leave the other deque alone; with
\* maxChunks = 0 or an empty deque the result is empty and the buffer unchanged.
C8_BatchPop ==
    [][ /\ last'.op = "PopMultiple" =>
            LET n == Min(last'.arg, Len(chunks_))
            IN /\ result' = SubSeq(chunks_, 1, n)
               /\ Len(result') <= last'.arg
               /\ chunks_' = DropFirst(chunks_, n)
               /\ float32Chunks_' = float32Chunks_
               /\ currentSizeBytes_' = currentSizeBytes_ - Pcm16Bytes(result')
               /\ n = 0 => UNCHANGED bufVars
        /\ last'.op = "PopMultipleFloat32" =>
            LET n == Min(last'.arg, Len(float32Chunks_))
            IN /\ result' = SubSeq(float32Chunks_, 1, n)
               /\ Len(result') <= last'.arg
               /\ float32Chunks_' = DropFirst(float32Chunks_, n)
               /\ chunks_' = chunks_
               /\ currentSizeBytes_' = currentSizeBytes_ - Float32Bytes(result')
               /\ n = 0 => UNCHANGED bufVars
      ]_vars

\* PopMultiple(2) returned two chunks and left a third one queued
C8_Witness ==
    /\ last.op = "PopMultiple"
    /\ last.arg = 2
    /\ Len(result) = 2
    /\ chunks_ # <<>>

(* ------------------------------- C9 ----------------------------------- *)

C10_SetMaxSize ==
    [][ last'.op = "SetMaxSize" =>
            LET b == last'.arg
                k == Len(chunks_) - Len(chunks_')
            IN /\ maxSizeBytes_' = b
               /\ k \in 0..Len(chunks_)
               /\ chunks_' = DropFirst(chunks_, k)
               /\ float32Chunks_' = float32Chunks_
               /\ currentSizeBytes_' =
                      currentSizeBytes_ - Pcm16Bytes(SubSeq(chunks_, 1, k))
               /\ currentSizeBytes_' <= b \/ chunks_' = <<>>
               /\ k > 0 => currentSizeBytes_ - Pcm16Bytes(SubSeq(chunks_, 1, k - 1)) > b
               /\ currentSizeBytes_ <= b => k = 0
      ]_vars

\* SetMaxSize evicted two chunks at once and kept a third
C10_Witness ==
    /\ last.op = "SetMaxSize"
    /\ evicted = 2
    /\ chunks_ # <<>>

(* ------------------------------- C11 ---------------------------------- *)

\* C11: with the budget at 0, a push of either kind that carries data leaves
\* both deques empty and the counter at 0, and usage is 0.
C11_ZeroBudgetPushEmpties ==
    [][ (maxSizeBytes_ = 0 /\ last'.op \in {"Push", "PushFloat32"} /\ last'.arg > 0) =>
            /\ chunks_' = <<>>
            /\ float32Chunks_' = <<>>
            /\ currentSizeBytes_' = 0
            /\ UsageOf(currentSizeBytes_', maxSizeBytes_') = F(0, 0) ]_vars

(* ------------------------------- C12 ---------------------------------- *)

\* value * max = cur, on the exact rationals
IsQuotient(value, cur, max) ==
    IF value.e >= 0
    THEN value.m * Pow2(value.e) * max = cur
    ELSE value.m * max = cur * Pow2(-value.e)

\* C12: whatever state GetUsagePercentage is called in, it returns a value in
\* [0, 1]: size / budget with size <= budget when the budget is positive, and
\* 0 when the budget is 0.
C12_UsageIsFraction ==
    [][ last'.op = "GetUsagePercentage" =>
            /\ FLeq(F(0, 0), result') /\ FLeq(result', F(1, 0))
            /\ maxSizeBytes_ > 0 =>
                   /\ currentSizeBytes_ <= maxSizeBytes_
                   /\ IsQuotient(result', currentSizeBytes_, maxSizeBytes_)
            /\ maxSizeBytes_ = 0 => result' = F(0, 0) ]_vars

(* ------------------------------- C13 ---------------------------------- *)

\* C13: Clear leaves both deques empty and the counter at 0 and keeps the
\* budget; from then on, until a push, every operation hands out nothing and
\* the buffer stays empty.
C13_ClearEmpties ==
    [][ /\ Clear =>
            /\ chunks_' = <<>> /\ float32Chunks_' = <<>>
            /\ currentSizeBytes_' = 0
            /\ maxSizeBytes_' = maxSizeBytes_
        /\ ( /\ chunks_ = <<>> /\ float32Chunks_ = <<>> /\ currentSizeBytes_ = 0
             /\ pushed16' = pushed16 /\ pushedF32' = pushedF32 ) =>
            /\ chunks_' = <<>> /\ float32Chunks_' = <<>>
            /\ currentSizeBytes_' = 0
            /\ popped16' = popped16 /\ poppedF32' = poppedF32 ]_vars

\* Clear has dropped float32 chunks, which nothing else can drop
C13_Witness ==
    /\ lostF32 /\ lost16
    /\ pushedF32 # <<>> /\ poppedF32 = <<>>
    /\ chunks_ = <<>> /\ float32Chunks_ = <<>>
    /\ currentSizeBytes_ = 0
    /\ maxSizeBytes_ = 200

(* ------------------------------- C14 ---------------------------------- *)

\* C14: IsEmpty returns true exactly when neither deque holds a chunk, which
\* is exactly when the counter is 0.
C14_IsEmptyMeansNoChunks ==
    [][ last'.op = "IsEmpty" =>
            /\ result' = (chunks_ = <<>> /\ float32Chunks_ = <<>>)
            /\ result' = (currentSizeBytes_ = 0) ]_vars

(* ------------------------------- C15 ---------------------------------- *)

RECURSIVE SumTo(_, _)
SumTo(f, n) == IF n = 0 THEN 0 ELSE f[n] + SumTo(f, n - 1)

\* frames queued in a PCM16 deque: each chunk's samples divided by its channels
QueuedFrames(q) == SumTo([i \in 1..Len(q) |-> Len(q[i].data) \div q[i].channels], Len(q))

\* C15: with channel counts of at least 1, GetBufferedDurationMs returns the
\* frames of the queued PCM16 chunks
\* times 1000 divided by the sample rate of the newest queued PCM16 chunk, 0
\* when that deque is empty or that rate is 0, whatever the float32 deque holds.
C15_DurationFromPcm16Only ==
    [][ ( /\ last'.op = "GetBufferedDurationMs"
          /\ \A i \in 1..Len(chunks_) : chunks_[i].channels >= 1 ) =>
            result' = IF chunks_ = <<>> THEN 0
                      ELSE IF chunks_[Len(chunks_)].sampleRate = 0 THEN 0
                      ELSE (QueuedFrames(chunks_) * 1000)
                               \div chunks_[Len(chunks_)].sampleRate ]_vars

C15_Witness ==
    /\ last.op = "GetBufferedDurationMs"
    /\ result = 20
    /\ Len(chunks_) = 2
    /\ chunks_[1].sampleRate = 48000 /\ chunks_[2].sampleRate = 100
    /\ float32Chunks_ # <<>>

(* ------------------------------- C16 ---------------------------------- *)

\* C16: a mono PCM16 chunk of n samples at rate r pushed into an empty buffer
\* whose budget it fits is the one queued chunk; GetBufferedDurationMs then
\* returns floor(n * 1000 / r); Pop then hands out the same samples, rate and
\* channel count and empties the buffer; IsEmpty is then true and GetSize 0.
C16_RoundTrip ==
    [][ LET empty == chunks_ = <<>> /\ float32Chunks_ = <<>> /\ currentSizeBytes_ = 0
            single == Len(chunks_) = 1 /\ float32Chunks_ = <<>>
                      /\ chunks_[1].channels = 1 /\ chunks_[1].sampleRate > 0
        IN /\ \A a \in QueryPushArgs :
                  ( /\ empty /\ a[1] # <<>> /\ a[3] = 1 /\ a[2] > 0
                    /\ HeaderOverhead + 2 * Len(a[1]) <= maxSizeBytes_
                    /\ Push(a[1], a[2], a[3]) ) =>
                      /\ Len(chunks_') = 1 /\ float32Chunks_' = <<>>
                      /\ chunks_'[1].data = a[1]
                      /\ chunks_'[1].sampleRate = a[2]
                      /\ chunks_'[1].channels = a[3]
           /\ (single /\ last'.op = "GetBufferedDurationMs") =>
                  result' = (Len(chunks_[1].data) * 1000) \div chunks_[1].sampleRate
           /\ (single /\ last'.op = "Pop") =>
                  /\ result' = TRUE
                  /\ outChunk'.data = chunks_[1].data
                  /\ outChunk'.sampleRate = chunks_[1].sampleRate
                  /\ outChunk'.channels = chunks_[1].channels
                  /\ chunks_' = <<>> /\ float32Chunks_' = <<>>
                  /\ currentSizeBytes_' = 0
           /\ (empty /\ last'.op = "IsEmpty") => result' = TRUE
           /\ (empty /\ last'.op = "GetSize") => result' = 0 ]_vars

\* the 960-sample frame at 48 kHz is the one queued chunk and measures 20 ms
C16_Witness ==
    /\ last.op = "GetBufferedDurationMs"
    /\ result = 20
    /\ Len(chunks_) = 1 /\ float32Chunks_ = <<>>
    /\ chunks_[1].data = Frame960
    /\ chunks_[1].sampleRate = 48000 /\ chunks_[1].channels = 1

(* ------------------------------- C17 ---------------------------------- *)

\* whole frames in a captured sample's bytes
SourceFrames(sample) ==
    Len(sample.data) \div ((sample.format.bitsPerSample \div 8) * sample.format.channels)

\* C17: every float32 chunk the capture callback queues carries the sample
\* rate of the captured sample it was decoded from and one value per frame of
\* that sample.
C17_RateAndFramesKept ==
    [][ \A sample \in CapturedSamples :
            (OnAudioData(sample) /\ Len(float32Chunks_') = Len(float32Chunks_) + 1) =>
                LET chunk == float32Chunks_'[Len(float32Chunks_')]
                IN /\ chunk.sampleRate = sample.format.sampleRate
                   /\ Len(chunk.data) = SourceFrames(sample) ]_vars

(* ------------------------------- C18 ---------------------------------- *)

\* C18: ConvertToMonoFloat32 returns an empty sequence for every bit depth
\* but 16 and 32, ConvertToPCM16 for every bit depth but 16, 24 and 32, and a
\* captured sample of such a depth leaves both deques and the counter as
\* they were.
C18_UnsupportedDepthIsSkipped ==
    [][ /\ ( /\ last'.op = "ConvertToMonoFloat32"
             /\ last'.arg[1].format.bitsPerSample \notin {16, 32} ) =>
               result' = Returned(<<>>)
        /\ ( /\ last'.op = "ConvertToPCM16"
             /\ last'.arg[1].format.bitsPerSample \notin {16, 24, 32} ) =>
               result' = Returned(<<>>)
        /\ \A sample \in ProbeSamples :
               ( /\ sample.format.bitsPerSample \notin {16, 32}
                 /\ OnAudioData(sample) ) =>
                   /\ chunks_' = chunks_
                   /\ float32Chunks_' = float32Chunks_
                   /\ currentSizeBytes_' = currentSizeBytes_ ]_vars

\* a 12-bit sample with data was handed to ConvertToPCM16 while the buffer
\* held chunks
C18_Witness ==
    /\ last.op = "ConvertToPCM16"
    /\ last.arg[1].format.bitsPerSample = 12
    /\ last.arg[1].data # <<>>
    /\ result = Returned(<<>>)
    /\ float32Chunks_ # <<>>

(* ------------------------------- C19 ---------------------------------- *)

\* C19: whatever sample they are handed, malformed ones included, the two
\* converters return a sequence and do not fault.
C19_ConvertersNeverFault ==
    last.op \in {"ConvertToMonoFloat32", "ConvertToPCM16"} => ~result.fault

(* ------------------------------- C20 ---------------------------------- *)

\* the signed 24-bit value of three little-endian bytes
Signed24(b0, b1, b2) ==
    b0 + 256 * b1 + 65536 * b2 - (IF b2 >= 128 THEN 16777216 ELSE 0)

\* C20: for 24-bit input that is not downmixed, ConvertToPCM16 returns one
\* value per byte triplet, floor(v / 256) for the triplet's signed value v: it
\* lies in [-32768, 32767] and is negative exactly when v is.
C20_Pcm24 ==
    ( /\ last.op = "ConvertToPCM16"
      /\ last.arg[1].format.bitsPerSample = 24
      /\ last.arg[1].data # <<>>
      /\ ~(last.arg[1].format.channels > 1 /\ last.arg[3] = 1) ) =>
        LET data == last.arg[1].data
            v(i) == Signed24(data[3 * i - 2], data[3 * i - 1], data[3 * i])
        IN /\ ~result.fault
           /\ Len(result.out) = Len(data) \div 3
           /\ \A i \in 1..Len(result.out) :
                  /\ result.out[i] = v(i) \div 256
                  /\ result.out[i] \in -32768..32767
                  /\ result.out[i] < 0 <=> v(i) < 0

\* 0x00,0x00,0x80 came out as -32768 and 0xFF,0xFF,0x7F as 32767
C20_Witness ==
    /\ last.op = "ConvertToPCM16"
    /\ last.arg[1].format.bitsPerSample = 24
    /\ last.arg[1].data = <<0, 0, 128, 255, 255, 127>>
    /\ result = Returned(<<-32768, 32767>>)

(* ------------------------------- C21 ---------------------------------- *)

\* C21: for 32-bit float input that is not downmixed, ConvertToPCM16 returns
\* for each sample s the integer nearest to clamp(s, -1, 1) * 32768, stored
\* without wrap-around: it lies in [-32768, 32767], is not negative when s is
\* not, and does not decrease when s increases, in the interleaved and in the
\* planar-stereo path.
C21_FloatToPcm16NoWrap ==
    ( /\ last.op = "ConvertToPCM16"
      /\ last.arg[1].format.bitsPerSample = 32
      /\ last.arg[1].format.isFloat
      /\ last.arg[1].format.channels >= 1
      /\ last.arg[1].data # <<>>
      /\ ~(last.arg[1].format.channels > 1 /\ last.arg[3] = 1) ) =>
        LET s == DecodeSamples(last.arg[1])
            out == result.out
        IN /\ ~result.fault
           /\ Len(out) = Len(s)
           /\ \A i \in 1..Len(out) :
                  /\ out[i] = LRint(Times32768(FClamp(s[i])))
                  /\ out[i] \in -32768..32767
                  /\ FLeq(F(0, 0), s[i]) => out[i] >= 0
           /\ \A i, j \in 1..Len(out) : FLeq(s[i], s[j]) => out[i] <= out[j]

(* ------------------------------- C22 ---------------------------------- *)

\* C22: StereoToMono returns, for an even-length sequence x, the sequence of
\* half the length whose i-th element is floor((x[2i-1] + x[2i]) / 2), within
\* the int16 range, and for an odd-length sequence the empty sequence.
C22_StereoToMono ==
    last.op = "StereoToMono" =>
        LET x == last.arg[1]
            out == result.out
        IN /\ ~result.fault
           /\ IF Len(x) % 2 = 0
              THEN /\ Len(out) = Len(x) \div 2
                   /\ \A i \in 1..Len(out) :
                          /\ out[i] = (x[2 * i - 1] + x[2 * i]) \div 2
                          /\ out[i] \in -32768..32767
              ELSE out = <<>>

C22_Witness ==
    /\ last.op = "StereoToMono"
    /\ last.arg[1] = <<100, 200, -100, -200>>
    /\ result = Returned(<<150, -150>>)

(* ------------------------------- C23 ---------------------------------- *)

RECURSIVE MinExponent(_, _, _)
MinExponent(s, from, n) ==
    IF n = 1 THEN s[from].e ELSE Min(s[from + n - 1].e, MinExponent(s, from, n - 1))

\* the exact sum of s[from .. from + n - 1], as an integer times 2^e
RECURSIVE ExactSum(_, _, _, _)
ExactSum(s, from, n, e) ==
    IF n = 0 THEN 0
    ELSE s[from + n - 1].m * Pow2(s[from + n - 1].e - e) + ExactSum(s, from, n - 1, e)

\* the float nearest to the exact mean of one frame
FrameMean(s, from, n) ==
    LET e == MinExponent(s, from, n)
        sum == ExactSum(s, from, n, e)
    IN IF sum = 0 THEN F(0, 0) ELSE FDiv(F(sum, e), n)

\* C23: for interleaved input of N channels ConvertToMonoFloat32 returns one
\* value per complete frame, the mean of the frame's N channel samples; the
\* common value when the channels are equal; and the decoded samples
\* themselves when N = 1.
C23_DownmixIsMean ==
    ( /\ last.op = "ConvertToMonoFloat32"
      /\ last.arg[1].format.bitsPerSample \in {16, 32}
      /\ last.arg[1].format.channels >= 1
      /\ ~last.arg[1].format.isNonInterleaved
      /\ last.arg[1].data # <<>> ) =>
        LET s == DecodeSamples(last.arg[1])
            n == last.arg[1].format.channels
            out == result.out
        IN /\ ~result.fault
           /\ Len(out) = Len(s) \div n
           /\ \A f \in 1..Len(out) :
                  /\ out[f] = FrameMean(s, (f - 1) * n + 1, n)
                  /\ (\A ch \in 1..n : s[(f - 1) * n + ch] = s[(f - 1) * n + 1]) =>
                         out[f] = s[(f - 1) * n + 1]
           /\ n = 1 => out = s

\* four channels that all carry 0.5 came out as 0.5
C23_Witness ==
    /\ last.op = "ConvertToMonoFloat32"
    /\ last.arg[1].format.channels = 4
    /\ last.arg[1].format.isFloat
    /\ result = Returned(<<F(1, -1)>>)

(* ------------------------------- C28 ---------------------------------- *)

RECURSIVE SumInts(_, _, _)
SumInts(s, from, n) == IF n = 0 THEN 0 ELSE s[from + n - 1] + SumInts(s, from, n - 1)

\* C28: with targetChannels = 1 and a source of N >= 1 channels, ConvertToPCM16
\* returns one value per frame of the decoded samples, the average of that
\* frame's N channels.
C28_Pcm16MonoPerFrame ==
    ( /\ last.op = "ConvertToPCM16"
      /\ last.arg[3] = 1
      /\ last.arg[1].format.bitsPerSample \in {16, 24, 32}
      /\ last.arg[1].format.channels >= 1
      /\ last.arg[1].data # <<>>
      /\ ~result.fault ) =>
        LET decoded == DecodePCM16(last.arg[1])
            n == last.arg[1].format.channels
            out == result.out
        IN /\ Len(out) = Len(decoded) \div n
           /\ \A f \in 1..Len(out) :
                  out[f] = SumInts(decoded, (f - 1) * n + 1, n) \div n

(* ------------------------------- C24 ---------------------------------- *)

\* C24: the float32 deque changes only by PushFloat32 appending one chunk, by
\* PopMultipleFloat32 removing a prefix and by Clear; eviction, Pop and
\* PopMultiple leave it as it is, and PopMultipleFloat32 leaves the PCM16
\* deque as it is.
C24_Float32QueueFrame ==
    [][ LET f == float32Chunks_
            g == float32Chunks_'
        IN /\ g # f =>
                  \/ /\ last'.op = "PushFloat32"
                     /\ Len(g) = Len(f) + 1
                     /\ SubSeq(g, 1, Len(f)) = f
                  \/ /\ last'.op = "PopMultipleFloat32"
                     /\ \E k \in 1..Len(f) : g = SubSeq(f, k + 1, Len(f))
                  \/ /\ last'.op = "Clear"
                     /\ g = <<>>
           /\ last'.op \in {"Push", "Pop", "PopMultiple", "SetMaxSize"} => g = f
           /\ last'.op = "PushFloat32" => SubSeq(g, 1, Len(f)) = f
           /\ last'.op = "PopMultipleFloat32" => chunks_' = chunks_ ]_vars

\* a PushFloat32 has evicted a PCM16 chunk and both float32 chunks are queued
C24_Witness ==
    /\ last.op = "PushFloat32"
    /\ evicted > 0
    /\ Len(float32Chunks_) = 2
    /\ maxSizeBytes_ = 50

(* ------------------------------- C25 ---------------------------------- *)

C26_OversizePush ==
    [][ (last'.op = "Push" /\ last'.arg > 0) =>
            LET size == HeaderOverhead + 2 * last'.arg
            IN /\ size > maxSizeBytes_ =>
                      /\ chunks_' = <<>>
                      /\ currentSizeBytes_' = Float32Bytes(float32Chunks_')
               /\ Float32Bytes(float32Chunks_) + size <= maxSizeBytes_ =>
                      /\ chunks_' # <<>>
                      /\ Len(chunks_'[Len(chunks_')].data) = last'.arg
                      /\ chunks_'[Len(chunks_')].timestamp = clock
                      /\ \E k \in 0..Len(chunks_) :
                             SubSeq(chunks_', 1, Len(chunks_') - 1)
                                 = SubSeq(chunks_, k + 1, Len(chunks_)) ]_vars

\* the 1010-sample chunk was dropped together with an older PCM16 chunk
C26_Witness ==
    /\ last.op = "Push" /\ last.arg = 1010
    /\ evicted >= 2
    /\ chunks_ = <<>>
    /\ float32Chunks_ # <<>>
    /\ currentSizeBytes_ = Float32Bytes(float32Chunks_)
    /\ maxSizeBytes_ = 2048

(* ------------------------------- C27 ---------------------------------- *)

\* C27: every chunk in the PCM16 deque has a channel count of at least 1, and
\* GetBufferedDurationMs never divides by zero.
C27_ChannelsAtLeastOne ==
    /\ \A i \in 1..Len(chunks_) : chunks_[i].channels >= 1
    /\ last.op = "GetBufferedDurationMs" => result # Trapped

(* ------------------------------- C29 ---------------------------------- *)

NonDecreasing(q) == \A i \in 1..(Len(q) - 1) : q[i].timestamp <= q[i + 1].timestamp

\* C29: with several threads pushing while the clock advances, the timestamps of
\* chunks_ and of float32Chunks_ never decrease from front to back, and neither do
\* those of a batch that PopMultiple or PopMultipleFloat32 is assembling or returns
C29_TimestampsNonDecreasing ==
    /\ NonDecreasing(chunks_)
    /\ NonDecreasing(float32Chunks_)
    /\ \A t \in Threads : NonDecreasing(locals[t].result.chunks)

\* a thread holds a batch of two chunks stamped at different times while a second
\* thread is inside a call, waiting for the mutex, and a third has pushed since
C29_Witness ==
    \E t \in Threads :
        /\ call[t].op \in {"PopMultiple", "PopMultipleFloat32"}
        /\ Len(locals[t].result.chunks) = 2
        /\ locals[t].result.chunks[1].timestamp < locals[t].result.chunks[2].timestamp
        /\ \E u \in Threads \ {t} : pc[u] = "entry"

(* ------------------------------- C30 ---------------------------------- *)

\* the capture thread is about to read jsCallback_ or to call through it while the
\* host thread is about to release or to assign it
HandleRace ==
    /\ capturePc \in {"handle", "call"}
    /\ hostPc \in {"release", "assign"}
    /\ hostPc = "release" => jsCallback_ # NoFunction

\* the thread that is calling the JavaScript callback holds the buffer's mutex
MutexHeldAcrossCallback ==
    \/ capturePc \in {"handle", "call"} /\ mutex_ = CaptureThread
    \/ hostPc = "js" /\ mutex_ = HostThread

\* C30: the capture thread never reads or calls through jsCallback_ while the host
\* thread releases or reassigns it, BlockingCall is never made on a function that
\* was released, and the buffer's mutex is not held while the callback is called
C30_CallbackHandleSynchronized ==
    /\ ~HandleRace
    /\ blockingCall \notin {"closing", "fault"}
    /\ ~MutexHeldAcrossCallback

====
